---- MODULE Spec2Model ----
(***************************************************************************)
(* Model of the synchronisation engine of the Google Calendar task sync    *)
(* plugin: folder-pair discovery, task extraction, the per-pass and        *)
(* per-task state machine of syncGoogleCalendarWithObsidian, and the       *)
(* remote calendar and the vault as far as the engine observes them.       *)
(*                                                                         *)
(* Strings are sequences of one-character strings, so that startsWith,     *)
(* trim, path.dirname and path.join are computed as the code computes      *)
(* them.  Times are small naturals (milliseconds since the epoch).         *)
(*                                                                         *)
(* The call sites of findMatchingFolderPairs (calendarSync.ts:56,          *)
(* dataFetchers.ts:17) pass a leading plugin argument that the resolver    *)
(* of fileHelpers does not declare.  The pass machine below binds root,    *)
(* search label and done label as the call sites name them.                *)
(***************************************************************************)
EXTENDS Naturals, Sequences, FiniteSets, TLC

VARIABLES
    folders,        \* vault: folder paths, in children order (a sequence)
    notes,          \* vault: note name -> note record (folder, front-matter, stat)
    remote,         \* calendar: ids of the events that exist
    nextId,         \* calendar: next provider-assigned id
    now,            \* wall clock
    settings,       \* plugin.settings, the configuration fields
    lastSyncDate,   \* plugin.settings.lastSyncDate (NoDate when absent)
    savedSyncDate,  \* lastSyncDate as persisted by saveSettings
    encTokenData,   \* plugin.settings.encTokenData (0 when absent, else a version)
    oAuth2Client,   \* plugin.oAuth2Client: NoClient or a client
    pc,             \* position of the pass in syncGoogleCalendarWithObsidian
    isQuickSync,    \* the mode flag of the pass in flight
    folderPairs,    \* folderPairs of the pass: sequence of entries in key order
    scoped,         \* filteredTasks of the pass (names of the folder-scoped tasks)
    tasks,          \* tasksToProcess of the pass
    idx,            \* index of the task being processed
    matchingEvent,  \* matchingEvent of the task being processed (NoId or id)
    processedCount, \* processedCount of the pass
    errorLogs,      \* errorLogs of the pass (paths of the failed tasks)
    calls,          \* history: remote calls and note mutations of the pass
    outcome,        \* history: how the pass ended
    doneOnce,       \* history: notes relocated by an earlier pass, untouched since
    pairsOut,       \* result of the resolver run of SpecPairs
    eventsToDelete, \* bulk cleanup: the listing of deleteAllGoogleEventsFromTasks
    eventIdx,       \* bulk cleanup: loop index i into the listing
    taskData,       \* field mapper: the attribute block handed to mapYamlToEvent
    mappings,       \* field mapper: plugin.settings.fieldMappings
    mappedEvent,    \* field mapper: what mapYamlToEvent returned or threw
    suspended,      \* a pass waiting on an await while a later pass runs
    expiry_date,    \* oAuth2Client.credentials.expiry_date
    logFiles,       \* the error-log files written by writeErrorLogs
    server,         \* oauth.ts: the module variable server (0 when undefined)
    listeners,      \* the callback listeners created so far: is each listening
    fileContent,    \* raw content of the note handed to saveTaskDataToYaml
    yamlData,       \* the data handed to saveTaskDataToYaml: <<key, value>> entries
    fileHistory     \* history: the content of that note before each write

vars == <<folders, notes, remote, nextId, now, settings, lastSyncDate,
          savedSyncDate, encTokenData, oAuth2Client, pc, isQuickSync,
          folderPairs, scoped, tasks, idx, matchingEvent, processedCount,
          errorLogs, calls, outcome, doneOnce, pairsOut,
          eventsToDelete, eventIdx, taskData, mappings, mappedEvent, suspended,
          expiry_date, logFiles,
          server, listeners, fileContent, yamlData, fileHistory>>

cleanupVars == <<eventsToDelete, eventIdx>>
mapperVars == <<taskData, mappings, mappedEvent>>

\* state of the operations beside the pass: bulk cleanup and the field mapper
sideVars == <<eventsToDelete, eventIdx, taskData, mappings, mappedEvent, suspended,
              expiry_date, logFiles,
          server, listeners, fileContent, yamlData, fileHistory>>

None == "none"

\* an absent googleEventId, an absent event (falsy in the code's tests)
NoId == 0

\* an unset path of a folder-pair entry
NoPath == <<>>

\* plugin.oAuth2Client = null
NoClient == [set |-> FALSE, refresh_token |-> FALSE]

\* an absent lastSyncDate; a stored one is <<t>>
NoDate == <<>>

\* credentials without an expiry_date
NoExpiry == 0

(***************************************************************************)
(* Bounds.                                                                 *)
(***************************************************************************)
MaxTime == 2
MaxEvents == 2

\* the ticks an access token is valid for after an exchange
TokenLifetime == 2

(***************************************************************************)
(* Strings.                                                                *)
(***************************************************************************)
Slash == "/"

\* String.prototype.startsWith
StartsWith(s, p) == Len(p) <= Len(s) /\ SubSeq(s, 1, Len(p)) = p

\* String.prototype.trim over the one whitespace character the model uses
RECURSIVE TrimLeft(_)
TrimLeft(s) == IF s # <<>> /\ Head(s) = " " THEN TrimLeft(Tail(s)) ELSE s

RECURSIVE TrimRight(_)
TrimRight(s) ==
    IF s # <<>> /\ s[Len(s)] = " " THEN TrimRight(SubSeq(s, 1, Len(s) - 1)) ELSE s

Trim(s) == TrimRight(TrimLeft(s))

\* position of the last "/" of a path, 0 when it has none
LastSlash(p) ==
    LET S == {i \in 1..Len(p) : p[i] = Slash}
    IN  IF S = {} THEN 0 ELSE CHOOSE i \in S : \A j \in S : j <= i

\* path.dirname
Dirname(p) ==
    LET i == LastSlash(p)
    IN  IF i = 0 THEN <<".">> ELSE IF i = 1 THEN <<Slash>> ELSE SubSeq(p, 1, i - 1)

\* TFolder.name: the last segment of the folder's path
Basename(p) == SubSeq(p, LastSlash(p) + 1, Len(p))

\* path.join(folder, name)
Join(folder, name) == folder \o <<Slash>> \o name

(***************************************************************************)
(* Folder Topology Resolver (fileHelpers.findMatchingFolderPairs).         *)
(* The record folderPairs is a sequence of entries in key-insertion order; *)
(* an unset searchPath or donePath is NoPath.                              *)
(***************************************************************************)
\* TFolder.parent: the vault root "/" holds the folders whose path has no "/"
ParentOf(g) == IF LastSlash(g) = 0 THEN <<Slash>> ELSE Dirname(g)

\* folder.children restricted to TFolder, in the vault's children order
ChildFolders(fs, folder) ==
    SelectSeq(fs, LAMBDA g : g # <<Slash>> /\ ParentOf(g) = folder)

KeyIndex(acc, key) ==
    LET S == {i \in 1..Len(acc) : acc[i].parent = key}
    IN  IF S = {} THEN 0 ELSE CHOOSE i \in S : TRUE

\* folderPairs[parentPath] = folderPairs[parentPath] || {}; then set one field
SetField(acc, key, field, path) ==
    LET acc1 == IF KeyIndex(acc, key) = 0
                THEN Append(acc, [parent |-> key, searchPath |-> NoPath, donePath |-> NoPath])
                ELSE acc
        i == KeyIndex(acc1, key)
    IN  [acc1 EXCEPT ![i] = [acc1[i] EXCEPT ![field] = path]]

\* the name test at the head of recurseFolder, keyed by path.dirname(folder.path)
RecordFolder(acc, folder, searchFolderName, doneFolderName) ==
    IF Basename(folder) = searchFolderName
    THEN SetField(acc, Dirname(folder), "searchPath", folder)
    ELSE IF Basename(folder) = doneFolderName
         THEN SetField(acc, Dirname(folder), "donePath", folder)
         ELSE acc

RECURSIVE recurseFolder(_, _, _, _, _)
RECURSIVE RecurseChildren(_, _, _, _, _)
recurseFolder(fs, folder, acc, searchFolderName, doneFolderName) ==
    RecurseChildren(fs, ChildFolders(fs, folder),
                    RecordFolder(acc, folder, searchFolderName, doneFolderName),
                    searchFolderName, doneFolderName)

RecurseChildren(fs, children, acc, searchFolderName, doneFolderName) ==
    IF children = <<>> THEN acc
    ELSE RecurseChildren(fs, Tail(children),
                         recurseFolder(fs, Head(children), acc,
                                       searchFolderName, doneFolderName),
                         searchFolderName, doneFolderName)

\* vault.getAbstractFileByPath(rootFolderPath) instanceof TFolder
IsFolder(fs, p) == p = <<Slash>> \/ \E i \in 1..Len(fs) : fs[i] = p

\* the resolver without its final filter
findMatchingFolderPairsNoFilter(fs, rootFolderPath, searchFolderName, doneFolderName) ==
    IF IsFolder(fs, rootFolderPath)
    THEN recurseFolder(fs, rootFolderPath, <<>>, searchFolderName, doneFolderName)
    ELSE <<>>

findMatchingFolderPairs(fs, rootFolderPath, searchFolderName, doneFolderName) ==
    LET all == IF IsFolder(fs, rootFolderPath)
               THEN recurseFolder(fs, rootFolderPath, <<>>,
                                  searchFolderName, doneFolderName)
               ELSE <<>>
    IN  SelectSeq(all, LAMBDA e : e.searchPath # NoPath /\ e.donePath # NoPath)

(***************************************************************************)
(* The vault and the settings of the pass machine.                         *)
(***************************************************************************)
NoteNames == {"a", "b"}

\* vault.getMarkdownFiles(): the extraction order
NoteOrder == <<"a", "b">>

T == <<"T">>
TO == <<"T", Slash, "O">>
TD == <<"T", Slash, "D">>
TOD == <<"T", Slash, "O", "D">>
TOO == <<"T", Slash, "O", Slash, "O">>
TOSD == <<"T", Slash, "O", Slash, "D">>

\* the vault layouts and folder labels the pass machine starts from
DefaultLayout == [fs |-> <<T, TO, TD>>, search |-> <<"O">>, done |-> <<"D">>]
PrefixLayout == [fs |-> <<T, TO, TOD>>, search |-> <<"O">>, done |-> <<"O", "D">>]
NestedLayout == [fs |-> <<T, TO, TD, TOO, TOSD>>, search |-> <<"O">>, done |-> <<"D">>]
LoneLayout == [fs |-> <<T, TO>>, search |-> <<"O">>, done |-> <<"D">>]

\* values of the attribute the status role is mapped to
OpenStatus == <<"x">>
DoneStatus == <<"D", " ">>
NoteStatuses == {OpenStatus, DoneStatus}

\* TFile.path
FilePath(n) == Join(notes[n].folder, <<n>>)

\* the arguments the call sites name: taskFolderPath, searchFolderName, doneFolderName
PairsOfSettings ==
    findMatchingFolderPairs(folders, settings.taskFolderPath,
                            settings.searchFolderName, settings.doneFolderName)

\* Object.values(folderPairs).some(({searchPath}) => path.startsWith(searchPath))
InSearchFolder(path, pairs) ==
    \E i \in 1..Len(pairs) : StartsWith(path, pairs[i].searchPath)

\* the Task projection of a note: name, data (a copy of the attribute block), file
TaskOf(n) ==
    [file |-> n,
     data |-> [status |-> notes[n].status, googleEventId |-> notes[n].googleEventId,
               dateOk |-> notes[n].dateOk]]

\* fetchObsidianTasks(plugin, tag)
fetchObsidianTasks ==
    LET pairs == PairsOfSettings
    IN  SelectSeq(NoteOrder,
                  LAMBDA n : InSearchFolder(FilePath(n), pairs) /\ notes[n].tags)

\* filteredTasks: the folder scoping of the orchestrator
FilteredTasks(fetched, pairs) ==
    SelectSeq(fetched, LAMBDA n : InSearchFolder(FilePath(n), pairs))

\* the incremental filter with >= in place of >
TasksToProcessInclusive(filtered, quick, checkpoint) ==
    IF quick /\ checkpoint # NoDate
    THEN SelectSeq(filtered, LAMBDA n : notes[n].ctime >= checkpoint[1]
                                        \/ notes[n].mtime >= checkpoint[1])
    ELSE filtered

\* the incremental filter handing the tasks over last first
TasksToProcessReversed(filtered, quick, checkpoint) ==
    LET kept == IF quick /\ checkpoint # NoDate
                THEN SelectSeq(filtered, LAMBDA n : notes[n].ctime > checkpoint[1]
                                                    \/ notes[n].mtime > checkpoint[1])
                ELSE filtered
    IN  [k \in 1..Len(kept) |-> kept[Len(kept) + 1 - k]]

\* tasksToProcess: the incremental filter
TasksToProcess(filtered, quick, checkpoint) ==
    IF quick /\ checkpoint # NoDate
    THEN SelectSeq(filtered, LAMBDA n : notes[n].ctime > checkpoint[1]
                                        \/ notes[n].mtime > checkpoint[1])
    ELSE filtered

Call(op, n, id, body, r) == [op |-> op, note |-> n, id |-> id, body |-> body, r |-> r]

CalendarOps == {"get", "delete", "insert", "update"}
RemoteOps == CalendarOps \cup {"token"}

(***************************************************************************)
(* Initial states: the plugin loaded, no pass in flight.                   *)
(***************************************************************************)
PassIdle ==
    /\ pc = "idle"
    /\ isQuickSync = FALSE
    /\ folderPairs = <<>>
    /\ scoped = <<>>
    /\ tasks = <<>>
    /\ idx = 0
    /\ matchingEvent = NoId
    /\ processedCount = 0
    /\ errorLogs = <<>>
    /\ calls = <<>>
    /\ outcome = None

\* neither a bulk cleanup nor a mapping under way
SideIdle ==
    /\ eventsToDelete = <<>>
    /\ eventIdx = 0
    /\ taskData = <<>>
    /\ mappings = <<>>
    /\ mappedEvent = <<>>
    /\ suspended = <<>>
    /\ expiry_date = NoExpiry
    /\ logFiles = <<>>
    /\ server = 0
    /\ listeners = <<>>
    /\ fileContent = <<>>
    /\ yamlData = <<>>
    /\ fileHistory = <<>>

\* the world of every initial state: nothing synchronised yet
FreshWorld ==
    /\ SideIdle
    /\ remote = {}
    /\ nextId = 1
    /\ now = 0
    /\ lastSyncDate = NoDate
    /\ savedSyncDate = NoDate
    /\ doneOnce = {}
    /\ pairsOut = <<>>
    /\ PassIdle

Settings(l, key, root) ==
    [status |-> key, deleteStatus |-> <<" ", "D">>, taskFolderPath |-> root,
     searchFolderName |-> l.search, doneFolderName |-> l.done, tokenRefresh |-> TRUE]

\* two tagged notes, a in folder fa and b in folder fb
Vault(fa, fb, okA) ==
    [n \in NoteNames |->
        [folder |-> IF n = "a" THEN fa ELSE fb,
         tags |-> TRUE, status |-> OpenStatus, googleEventId |-> NoId,
         dateOk |-> IF n = "a" THEN okA ELSE TRUE,
         ctime |-> 0, mtime |-> 0]]

Authorised == [set |-> TRUE, refresh_token |-> FALSE]
Refreshable == [set |-> TRUE, refresh_token |-> TRUE]

\* configured vaults, the credential loaded at plugin start
InitConfigured ==
    \E l \in {DefaultLayout, PrefixLayout}, okA \in BOOLEAN :
        /\ folders = l.fs
        /\ settings = Settings(l, <<"s">>, T)
        /\ notes = Vault(TO, TO, okA)
        /\ oAuth2Client = Authorised
        /\ encTokenData = 1

\* vaults on which a pass stops on a precondition
InitStopping ==
    /\ notes = Vault(TO, TO, TRUE)
    /\ \/ \E client \in {NoClient, Refreshable}, enc \in {0, 1},
            key \in {<<"s">>, <<>>, <<" ">>} :
             /\ folders = DefaultLayout.fs
             /\ settings = Settings(DefaultLayout, key, T)
             /\ oAuth2Client = client
             /\ encTokenData = enc
             /\ (client.set /\ enc = 1) => key # <<"s">>
       \/ \E root \in {T, <<"M">>} :
             /\ folders = LoneLayout.fs
             /\ settings = Settings(LoneLayout, <<"s">>, root)
             /\ oAuth2Client = Refreshable
             /\ encTokenData = 1

Init ==
    /\ FreshWorld
    /\ InitConfigured \/ InitStopping

(***************************************************************************)
(* syncGoogleCalendarWithObsidian: the pass-level steps.                   *)
(***************************************************************************)
passVars == <<isQuickSync, folderPairs, scoped, tasks, idx, matchingEvent,
              processedCount, errorLogs, calls, outcome>>
worldVars == <<folders, notes, remote, nextId, now, settings, doneOnce, pairsOut,
               sideVars>>

\* the pass stops (a notice and a return, or a throw) with the given reason
Stop(reason) == pc' = "done" /\ outcome' = reason

\* loadAndSetTokens(plugin): the client the call leaves behind
loadAndSetTokens(parsed) ==
    IF encTokenData = 0 THEN oAuth2Client
    ELSE IF parsed THEN [set |-> TRUE, refresh_token |-> settings.tokenRefresh]
    ELSE NoClient

\* lines 26-45: credential, token data and status role, checked in this order
Start(quick) ==
    /\ pc = "idle"
    /\ isQuickSync' = quick
    /\ \E parsed \in BOOLEAN :
          /\ oAuth2Client' = IF ~oAuth2Client.set THEN loadAndSetTokens(parsed)
                             ELSE oAuth2Client
          /\ IF ~oAuth2Client'.set THEN Stop("noClient")
             ELSE IF encTokenData = 0 THEN Stop("noToken")
             ELSE IF settings.status = <<>> \/ Trim(settings.status) = <<>>
                  THEN Stop("threwStatus")
             ELSE pc' = "refresh" /\ outcome' = None
    /\ UNCHANGED <<worldVars, lastSyncDate, savedSyncDate, encTokenData, folderPairs,
                   scoped, tasks, idx, matchingEvent, processedCount, errorLogs, calls>>

\* a refresh step whose failure ends the pass
RefreshAborting ==
    /\ pc = "refresh"
    /\ IF oAuth2Client.refresh_token
       THEN \E ok \in BOOLEAN :
               /\ calls' = Append(calls, Call("token", None, NoId, NoId,
                                              IF ok THEN "ok" ELSE "fail"))
               /\ encTokenData' = IF ok THEN 3 - encTokenData ELSE encTokenData
               /\ expiry_date' = IF ok THEN now + TokenLifetime ELSE expiry_date
               /\ IF ok THEN pc' = "discover" /\ outcome' = outcome
                  ELSE Stop("threwRefresh")
       ELSE Stop("threwRefresh") /\ UNCHANGED <<calls, encTokenData, expiry_date>>
    /\ UNCHANGED <<folders, notes, remote, nextId, now, settings, doneOnce, pairsOut,
                   cleanupVars, mapperVars, suspended, logFiles, server, listeners,
                   fileContent, yamlData, fileHistory, lastSyncDate, savedSyncDate,
                   oAuth2Client, isQuickSync, folderPairs, scoped, tasks, idx,
                   matchingEvent, processedCount, errorLogs>>

\* line 48 and oauth.refreshAccessToken: the exchange is made whenever the
\* client holds a refresh token; a failure is caught inside
Refresh ==
    /\ pc = "refresh"
    /\ pc' = "discover"
    /\ IF oAuth2Client.refresh_token
       THEN \E ok \in BOOLEAN :
               /\ calls' = Append(calls, Call("token", None, NoId, NoId,
                                              IF ok THEN "ok" ELSE "fail"))
               /\ encTokenData' = IF ok THEN 3 - encTokenData ELSE encTokenData
               /\ expiry_date' = IF ok THEN now + TokenLifetime ELSE expiry_date
       ELSE UNCHANGED <<calls, encTokenData, expiry_date>>
    /\ UNCHANGED <<folders, notes, remote, nextId, now, settings, doneOnce, pairsOut,
                   cleanupVars, mapperVars, suspended, logFiles, server, listeners,
                   fileContent, yamlData, fileHistory, lastSyncDate, savedSyncDate,
                   oAuth2Client, isQuickSync, folderPairs, scoped, tasks, idx,
                   matchingEvent, processedCount, errorLogs, outcome>>

\* a discovery that stores the checkpoint when it stops the pass
DiscoverStampingStops ==
    /\ pc = "discover"
    /\ LET pairs == PairsOfSettings
           filtered == FilteredTasks(fetchObsidianTasks, pairs)
           todo == TasksToProcess(filtered, isQuickSync, lastSyncDate)
       IN  IF Len(pairs) = 0
           THEN /\ Stop("noPairs")
                /\ lastSyncDate' = <<now>>
                /\ savedSyncDate' = <<now>>
                /\ UNCHANGED <<folderPairs, scoped, tasks, idx>>
           ELSE /\ folderPairs' = pairs
                /\ IF Len(filtered) = 0
                   THEN /\ Stop("noTasks")
                        /\ lastSyncDate' = <<now>>
                        /\ savedSyncDate' = <<now>>
                        /\ UNCHANGED <<scoped, tasks, idx>>
                   ELSE /\ scoped' = filtered
                        /\ IF Len(todo) = 0
                           THEN /\ Stop("noneAfterFilter")
                                /\ lastSyncDate' = <<now>>
                                /\ savedSyncDate' = <<now>>
                                /\ UNCHANGED <<tasks, idx>>
                           ELSE /\ tasks' = [i \in 1..Len(todo) |-> TaskOf(todo[i])]
                                /\ idx' = 1
                                /\ pc' = "resolve"
                                /\ outcome' = None
                                /\ UNCHANGED <<lastSyncDate, savedSyncDate>>
    /\ UNCHANGED <<worldVars, encTokenData, oAuth2Client,
                   isQuickSync, matchingEvent, processedCount, errorLogs, calls>>

\* lines 50-100: folder pairs, extraction, folder scoping, incremental filter
Discover ==
    /\ pc = "discover"
    /\ LET pairs == PairsOfSettings
           filtered == FilteredTasks(fetchObsidianTasks, pairs)
           todo == TasksToProcess(filtered, isQuickSync, lastSyncDate)
       IN  IF Len(pairs) = 0
           THEN Stop("noPairs") /\ UNCHANGED <<folderPairs, scoped, tasks, idx>>
           ELSE /\ folderPairs' = pairs
                /\ IF Len(filtered) = 0
                   THEN Stop("noTasks") /\ UNCHANGED <<scoped, tasks, idx>>
                   ELSE /\ scoped' = filtered
                        /\ IF Len(todo) = 0
                           THEN Stop("noneAfterFilter") /\ UNCHANGED <<tasks, idx>>
                           ELSE /\ tasks' = [i \in 1..Len(todo) |-> TaskOf(todo[i])]
                                /\ idx' = 1
                                /\ pc' = "resolve"
                                /\ outcome' = None
    /\ UNCHANGED <<worldVars, lastSyncDate, savedSyncDate, encTokenData, oAuth2Client,
                   isQuickSync, matchingEvent, processedCount, errorLogs, calls>>

(***************************************************************************)
(* syncGoogleCalendarWithObsidian: the per-task steps, one per await.      *)
(***************************************************************************)
\* line 126: the trimmed comparison with the delete-trigger value
IsDeleteStatusUntrimmed(data) ==
    data.status = settings.deleteStatus

IsDeleteStatus(data) ==
    Trim(data.status) = Trim(settings.deleteStatus)

\* a branch choice that recreates the event of a task marked for deletion
BranchIgnoringDelete(data, event) ==
    IF event # NoId THEN "update" ELSE "insert"

\* a branch choice that updates whenever the task carries a back-reference
BranchOnBackReference(data, event) ==
    IF IsDeleteStatus(data)
    THEN IF data.googleEventId # NoId THEN "delete" ELSE "save2"
    ELSE IF data.googleEventId # NoId THEN "update" ELSE "insert"

\* lines 126-153: which branch runs after the resolve step
Branch(data, event) ==
    IF IsDeleteStatus(data)
    THEN IF data.googleEventId # NoId THEN "delete" ELSE "save2"
    ELSE IF event # NoId THEN "update" ELSE "insert"

\* the for loop moves to the next task, or to the end of the pass
Advance ==
    /\ idx' = idx + 1
    /\ matchingEvent' = NoId
    /\ pc' = IF idx + 1 > Len(tasks) THEN "finish" ELSE "resolve"

\* a loop whose catch clause ends the pass
CatchAborting(n) ==
    /\ processedCount' = processedCount + 1
    /\ errorLogs' = Append(errorLogs, FilePath(n))
    /\ idx' = idx + 1
    /\ matchingEvent' = NoId
    /\ pc' = "finish"

\* lines 157-162: the per-task catch clause
Catch(n) ==
    /\ processedCount' = processedCount + 1
    /\ errorLogs' = Append(errorLogs, FilePath(n))
    /\ Advance

\* lines 155-156: the task completed through the update or the create branch
Completed ==
    /\ processedCount' = processedCount + 1
    /\ Advance

\* a write-back that drops the back-reference
WrittenNoteLosingId(note, data) ==
    [note EXCEPT !.status = data.status, !.googleEventId = NoId,
                 !.dateOk = data.dateOk, !.mtime = now]

\* saveTaskDataToYaml followed by the re-read of the attribute block
WrittenNote(note, data) ==
    [note EXCEPT !.status = data.status, !.googleEventId = data.googleEventId,
                 !.dateOk = data.dateOk, !.mtime = now]

\* lines 104-122: resolve the back-reference
Resolve ==
    /\ pc = "resolve"
    /\ LET t == tasks[idx]
           n == t.file
           gid == t.data.googleEventId
       IN  IF gid = NoId
           THEN /\ matchingEvent' = NoId
                /\ pc' = Branch(t.data, NoId)
                /\ UNCHANGED <<idx, processedCount, errorLogs, calls>>
           ELSE \E transport \in BOOLEAN :
                   IF ~transport
                   THEN /\ calls' = Append(calls, Call("get", n, gid, NoId, "fail"))
                        /\ Catch(n)
                   ELSE IF gid \in remote
                   THEN /\ calls' = Append(calls, Call("get", n, gid, NoId, "ok"))
                        /\ matchingEvent' = gid
                        /\ pc' = Branch(t.data, gid)
                        /\ UNCHANGED <<idx, processedCount, errorLogs>>
                   ELSE /\ calls' = Append(calls, Call("get", n, gid, NoId, "notfound"))
                        /\ matchingEvent' = NoId
                        /\ pc' = Branch(t.data, NoId)
                        /\ UNCHANGED <<idx, processedCount, errorLogs>>
    /\ UNCHANGED <<worldVars, lastSyncDate, savedSyncDate, encTokenData, oAuth2Client,
                   isQuickSync, folderPairs, scoped, tasks, outcome>>

\* a deletion branch that drops the back-reference from the note before the
\* remote delete is known to have succeeded
DeleteStepClearingFirst ==
    /\ pc = "delete"
    /\ LET t == tasks[idx]
           n == t.file
           gid == t.data.googleEventId
       IN  /\ notes' = [notes EXCEPT ![n].googleEventId = NoId]
           /\ \E ok \in BOOLEAN :
                 IF ok /\ gid \in remote
                 THEN /\ calls' = Append(calls, Call("delete", n, gid, NoId, "ok"))
                      /\ remote' = remote \ {gid}
                      /\ tasks' = [tasks EXCEPT ![idx].data.googleEventId = NoId]
                      /\ pc' = "save1"
                      /\ UNCHANGED <<idx, matchingEvent, processedCount, errorLogs>>
                 ELSE /\ calls' = Append(calls, Call("delete", n, gid, NoId, "fail"))
                      /\ Catch(n)
                      /\ UNCHANGED <<remote, tasks>>
    /\ UNCHANGED <<folders, nextId, now, settings, doneOnce, pairsOut, sideVars,
                   lastSyncDate, savedSyncDate, encTokenData, oAuth2Client,
                   isQuickSync, folderPairs, scoped, outcome>>

\* lines 129-131 and deleteEvent: the remote delete, then the field removal
DeleteStep ==
    /\ pc = "delete"
    /\ LET t == tasks[idx]
           n == t.file
           gid == t.data.googleEventId
       IN  \E ok \in BOOLEAN :
              IF ok /\ gid \in remote
              THEN /\ calls' = Append(calls, Call("delete", n, gid, NoId, "ok"))
                   /\ remote' = remote \ {gid}
                   /\ tasks' = [tasks EXCEPT ![idx].data.googleEventId = NoId]
                   /\ pc' = "save1"
                   /\ UNCHANGED <<idx, matchingEvent, processedCount, errorLogs>>
              ELSE /\ calls' = Append(calls, Call("delete", n, gid, NoId, "fail"))
                   /\ Catch(n)
                   /\ UNCHANGED <<remote, tasks>>
    /\ UNCHANGED <<folders, notes, nextId, now, settings, doneOnce, pairsOut, sideVars,
                   lastSyncDate, savedSyncDate, encTokenData, oAuth2Client,
                   isQuickSync, folderPairs, scoped, outcome>>

\* a step that writes the task data to the note and goes on to `next`
SaveStep(at, next) ==
    /\ pc = at
    /\ LET t == tasks[idx]
           n == t.file
       IN  \E ok \in BOOLEAN :
              IF ok
              THEN /\ notes' = [notes EXCEPT ![n] = WrittenNote(notes[n], t.data)]
                   /\ calls' = Append(calls, Call("save", n, t.data.googleEventId,
                                                  NoId, "ok"))
                   /\ IF next = "next"
                      THEN Completed /\ UNCHANGED errorLogs
                      ELSE pc' = next
                           /\ UNCHANGED <<idx, matchingEvent, processedCount, errorLogs>>
              ELSE /\ calls' = Append(calls, Call("save", n, t.data.googleEventId,
                                                  NoId, "fail"))
                   /\ Catch(n)
                   /\ UNCHANGED notes
    /\ UNCHANGED <<folders, remote, nextId, now, settings, doneOnce, pairsOut, sideVars,
                   lastSyncDate, savedSyncDate, encTokenData, oAuth2Client,
                   isQuickSync, folderPairs, scoped, tasks, outcome>>

\* line 132: the write inside the back-reference test
Save1 == SaveStep("save1", "save2")

\* line 135: the unconditional write of the deletion branch
Save2 == SaveStep("save2", "move")

\* line 138: the first key whose searchPath prefixes the note's path (0: none)
DonePairIndex(path) ==
    LET S == {i \in 1..Len(folderPairs) : StartsWith(path, folderPairs[i].searchPath)}
    IN  IF S = {} THEN 0 ELSE CHOOSE i \in S : \A j \in S : i <= j

\* a relocation whose failure is logged to the console only and not re-raised
MoveSwallowingFailure ==
    /\ pc = "move"
    /\ LET t == tasks[idx]
           n == t.file
           k == DonePairIndex(FilePath(n))
       IN  IF k = 0
           THEN Advance /\ UNCHANGED <<notes, calls, processedCount, errorLogs>>
           ELSE LET target == folderPairs[k].donePath
                    taken == \E m \in NoteNames \ {n} : FilePath(m) = Join(target, <<n>>)
                IN  \E ok \in BOOLEAN :
                       IF ok /\ ~taken
                       THEN /\ notes' = [notes EXCEPT ![n].folder = target]
                            /\ calls' = Append(calls, Call("move", n, NoId, NoId, "ok"))
                            /\ Advance
                            /\ UNCHANGED <<processedCount, errorLogs>>
                       ELSE /\ calls' = Append(calls, Call("move", n, NoId, NoId, "fail"))
                            /\ Advance
                            /\ UNCHANGED <<notes, processedCount, errorLogs>>
    /\ UNCHANGED <<folders, remote, nextId, now, settings, doneOnce, pairsOut, sideVars,
                   lastSyncDate, savedSyncDate, encTokenData, oAuth2Client,
                   isQuickSync, folderPairs, scoped, tasks, outcome>>

\* lines 137-145 and moveTaskToFolder: relocate, then continue
Move ==
    /\ pc = "move"
    /\ LET t == tasks[idx]
           n == t.file
           k == DonePairIndex(FilePath(n))
       IN  IF k = 0
           THEN Advance /\ UNCHANGED <<notes, calls, processedCount, errorLogs>>
           ELSE LET target == folderPairs[k].donePath
                    taken == \E m \in NoteNames \ {n} : FilePath(m) = Join(target, <<n>>)
                IN  \E ok \in BOOLEAN :
                       IF ok /\ ~taken
                       THEN /\ notes' = [notes EXCEPT ![n].folder = target]
                            /\ calls' = Append(calls, Call("move", n, NoId, NoId, "ok"))
                            /\ Advance
                            /\ UNCHANGED <<processedCount, errorLogs>>
                       ELSE /\ calls' = Append(calls, Call("move", n, NoId, NoId, "fail"))
                            /\ Catch(n)
                            /\ UNCHANGED notes
    /\ UNCHANGED <<folders, remote, nextId, now, settings, doneOnce, pairsOut, sideVars,
                   lastSyncDate, savedSyncDate, encTokenData, oAuth2Client,
                   isQuickSync, folderPairs, scoped, tasks, outcome>>

\* mapYamlToEvent, the id of the event body: the task's back-reference
MappedId(data) == data.googleEventId

\* an update branch that saves the attribute block again after the call
UpdateWritingBack ==
    /\ pc = "update"
    /\ LET t == tasks[idx]
           n == t.file
       IN  IF ~t.data.dateOk
           THEN Catch(n) /\ UNCHANGED <<calls, notes>>
           ELSE \E ok \in BOOLEAN :
                   IF ok /\ matchingEvent \in remote
                   THEN /\ calls' = Append(calls, Call("update", n, matchingEvent,
                                                       matchingEvent, "ok"))
                        /\ notes' = [notes EXCEPT ![n] = WrittenNote(notes[n], t.data)]
                        /\ Completed
                        /\ UNCHANGED errorLogs
                   ELSE /\ calls' = Append(calls, Call("update", n, matchingEvent,
                                                       matchingEvent, "fail"))
                        /\ Catch(n)
                        /\ UNCHANGED notes
    /\ UNCHANGED <<folders, remote, nextId, now, settings, doneOnce, pairsOut, sideVars,
                   lastSyncDate, savedSyncDate, encTokenData, oAuth2Client,
                   isQuickSync, folderPairs, scoped, tasks, outcome>>

\* line 150 and syncTaskToEvent: map, force the id, update
Update ==
    /\ pc = "update"
    /\ LET t == tasks[idx]
           n == t.file
       IN  IF ~t.data.dateOk
           THEN Catch(n) /\ UNCHANGED calls
           ELSE \E ok \in BOOLEAN :
                   IF ok /\ matchingEvent \in remote
                   THEN /\ calls' = Append(calls, Call("update", n, matchingEvent,
                                                       matchingEvent, "ok"))
                        /\ Completed
                        /\ UNCHANGED errorLogs
                   ELSE /\ calls' = Append(calls, Call("update", n, matchingEvent,
                                                       matchingEvent, "fail"))
                        /\ Catch(n)
    /\ UNCHANGED <<worldVars, lastSyncDate, savedSyncDate, encTokenData, oAuth2Client,
                   isQuickSync, folderPairs, scoped, tasks, outcome>>

\* a create branch whose mapping falls back to the current time for a value
\* that does not parse, so that the insert is made all the same
InsertDefaultingDates ==
    /\ pc = "insert"
    /\ LET t == tasks[idx]
           n == t.file
           body == MappedId(t.data)
           id == IF body = NoId THEN nextId ELSE body
       IN  \E ok \in BOOLEAN :
              IF ok /\ id \notin remote /\ id <= MaxEvents
              THEN /\ calls' = Append(calls, Call("insert", n, id, body, "ok"))
                   /\ remote' = remote \cup {id}
                   /\ nextId' = IF body = NoId THEN nextId + 1 ELSE nextId
                   /\ tasks' = [tasks EXCEPT ![idx].data.googleEventId = id]
                   /\ pc' = "saveback"
                   /\ UNCHANGED <<idx, matchingEvent, processedCount, errorLogs>>
              ELSE /\ calls' = Append(calls, Call("insert", n, NoId, body, "fail"))
                   /\ Catch(n)
                   /\ UNCHANGED <<remote, nextId, tasks>>
    /\ UNCHANGED <<folders, notes, now, settings, doneOnce, pairsOut, sideVars,
                   lastSyncDate, savedSyncDate, encTokenData, oAuth2Client,
                   isQuickSync, folderPairs, scoped, outcome>>

\* line 152 and createEventForTask lines 27-35: map, insert, keep the new id
Insert ==
    /\ pc = "insert"
    /\ LET t == tasks[idx]
           n == t.file
           body == MappedId(t.data)
           id == IF body = NoId THEN nextId ELSE body
       IN  IF ~t.data.dateOk
           THEN Catch(n) /\ UNCHANGED <<calls, remote, nextId, tasks>>
           ELSE \E ok \in BOOLEAN :
                   IF ok /\ id \notin remote /\ id <= MaxEvents
                   THEN /\ calls' = Append(calls, Call("insert", n, id, body, "ok"))
                        /\ remote' = remote \cup {id}
                        /\ nextId' = IF body = NoId THEN nextId + 1 ELSE nextId
                        /\ tasks' = [tasks EXCEPT ![idx].data.googleEventId = id]
                        /\ pc' = "saveback"
                        /\ UNCHANGED <<idx, matchingEvent, processedCount, errorLogs>>
                   ELSE /\ calls' = Append(calls, Call("insert", n, NoId, body, "fail"))
                        /\ Catch(n)
                        /\ UNCHANGED <<remote, nextId, tasks>>
    /\ UNCHANGED <<folders, notes, now, settings, doneOnce, pairsOut, sideVars,
                   lastSyncDate, savedSyncDate, encTokenData, oAuth2Client,
                   isQuickSync, folderPairs, scoped, outcome>>

\* createEventForTask line 36: write the new id back to the note
SaveBack == SaveStep("saveback", "next")

\* a pass end that advances the checkpoint only after a clean pass
FinishOnSuccessOnly ==
    /\ pc = "finish"
    /\ lastSyncDate' = IF errorLogs = <<>> THEN <<now>> ELSE lastSyncDate
    /\ savedSyncDate' = IF errorLogs = <<>> THEN <<now>> ELSE savedSyncDate
    /\ outcome' = IF errorLogs = <<>> THEN "success" ELSE "errors"
    /\ pc' = "done"
    /\ UNCHANGED <<worldVars, encTokenData, oAuth2Client, isQuickSync, folderPairs,
                   scoped, tasks, idx, matchingEvent, processedCount, errorLogs, calls>>

\* a checkpoint set back by one tick when the pass logged an error
FinishRewindingOnErrors ==
    /\ pc = "finish"
    /\ LET stamp == IF errorLogs # <<>> /\ now > 0 THEN now - 1 ELSE now
       IN  lastSyncDate' = <<stamp>> /\ savedSyncDate' = <<stamp>>
    /\ outcome' = IF errorLogs = <<>> THEN "success" ELSE "errors"
    /\ pc' = "done"
    /\ UNCHANGED <<worldVars, encTokenData, oAuth2Client, isQuickSync, folderPairs,
                   scoped, tasks, idx, matchingEvent, processedCount, errorLogs, calls>>

\* lines 165-177: the summary and the checkpoint
Finish ==
    /\ pc = "finish"
    /\ lastSyncDate' = <<now>>
    /\ savedSyncDate' = <<now>>
    /\ outcome' = IF errorLogs = <<>> THEN "success" ELSE "errors"
    /\ pc' = "done"
    /\ UNCHANGED <<worldVars, encTokenData, oAuth2Client, isQuickSync, folderPairs,
                   scoped, tasks, idx, matchingEvent, processedCount, errorLogs, calls>>

\* notes the pass relocated through the deletion branch without any calendar call
RelocatedWithoutCall ==
    {n \in NoteNames :
        /\ \E i \in 1..Len(calls) : calls[i] = Call("move", n, NoId, NoId, "ok")
        /\ ~\E i \in 1..Len(calls) : calls[i].note = n /\ calls[i].op \in CalendarOps}

\* the command callback has returned; the locals of the pass are gone
Return ==
    /\ pc = "done"
    /\ pc' = "idle"
    /\ isQuickSync' = FALSE
    /\ folderPairs' = <<>>
    /\ scoped' = <<>>
    /\ tasks' = <<>>
    /\ idx' = 0
    /\ matchingEvent' = NoId
    /\ processedCount' = 0
    /\ errorLogs' = <<>>
    /\ calls' = <<>>
    /\ outcome' = None
    /\ doneOnce' = doneOnce \cup RelocatedWithoutCall
    /\ UNCHANGED <<folders, notes, remote, nextId, now, settings, pairsOut, sideVars,
                   lastSyncDate, savedSyncDate, encTokenData, oAuth2Client>>

(***************************************************************************)
(* The environment between passes: the clock, the user, the provider.      *)
(***************************************************************************)
Tick ==
    /\ pc = "idle"
    /\ now < MaxTime
    /\ now' = now + 1
    /\ UNCHANGED <<folders, notes, remote, nextId, settings, doneOnce, pairsOut, sideVars,
                   lastSyncDate, savedSyncDate, encTokenData, oAuth2Client, pc,
                   passVars>>

\* the user edits the status attribute of a task note
UserEdit(n, s) ==
    /\ pc = "idle"
    /\ notes[n].tags
    /\ notes[n].status # s
    /\ notes' = [notes EXCEPT ![n].status = s, ![n].mtime = now]
    /\ doneOnce' = doneOnce \ {n}
    /\ UNCHANGED <<folders, remote, nextId, now, settings, pairsOut, sideVars,
                   lastSyncDate, savedSyncDate, encTokenData, oAuth2Client, pc,
                   passVars>>

\* a task note is recreated from a copy that keeps its modification time
UserRestore(n) ==
    /\ pc = "idle"
    /\ notes[n].tags
    /\ notes[n].ctime < now
    /\ notes' = [notes EXCEPT ![n].ctime = now]
    /\ doneOnce' = doneOnce \ {n}
    /\ UNCHANGED <<folders, remote, nextId, now, settings, pairsOut, sideVars,
                   lastSyncDate, savedSyncDate, encTokenData, oAuth2Client, pc,
                   passVars>>

\* an event is deleted out-of-band in the calendar
RemoteDelete(e) ==
    /\ pc = "idle"
    /\ e \in remote
    /\ remote' = remote \ {e}
    /\ UNCHANGED <<folders, notes, nextId, now, settings, doneOnce, pairsOut, sideVars,
                   lastSyncDate, savedSyncDate, encTokenData, oAuth2Client, pc,
                   passVars>>

Next ==
    \/ \E quick \in BOOLEAN : Start(quick)
    \/ Refresh
    \/ Discover
    \/ Resolve
    \/ DeleteStep
    \/ Save1
    \/ Save2
    \/ Move
    \/ Update
    \/ Insert
    \/ SaveBack
    \/ Finish
    \/ Return
    \/ \E n \in NoteNames, s \in NoteStatuses : UserEdit(n, s)
    \/ \E e \in 1..MaxEvents : RemoteDelete(e)

Spec == Init /\ [][Next]_vars

(***************************************************************************)
(* The pass machine under a running clock: one task note, the clock ticks  *)
(* between passes.                                                         *)
(***************************************************************************)
InitClock ==
    /\ FreshWorld
    /\ folders = DefaultLayout.fs
    /\ settings = Settings(DefaultLayout, <<"s">>, T)
    /\ notes = [Vault(TO, TD, TRUE) EXCEPT !["b"].tags = FALSE]
    /\ oAuth2Client = Authorised
    /\ encTokenData = 1

NextClock ==
    \/ Next
    \/ Tick
    \/ \E n \in NoteNames : UserRestore(n)

SpecClock == InitClock /\ [][NextClock]_vars

(***************************************************************************)
(* The resolver on its own: folder trees, roots and labels drawn from      *)
(* bounded sets, one step that applies findMatchingFolderPairs.            *)
(***************************************************************************)
TP == <<"T", Slash, "P">>
TPO == <<"T", Slash, "P", Slash, "O">>
TPD == <<"T", Slash, "P", Slash, "D">>
TopO == <<"O">>
TopD == <<"D">>

FolderUniverse == <<T, TO, TD, TP, TPO, TPD, TOO, TOSD, TopO, TopD>>

Reverse(q) == [i \in 1..Len(q) |-> q[Len(q) + 1 - i]]

\* the sets of folders that hold the parent of each of their folders
FolderTrees ==
    {S \in SUBSET {FolderUniverse[i] : i \in 1..Len(FolderUniverse)} :
        \A f \in S : ParentOf(f) = <<Slash>> \/ ParentOf(f) \in S}

Labels == {<<"O">>, <<"D">>, <<"P">>}
Roots == {T, <<Slash>>, TO, <<"M">>}

InitPairs ==
    /\ \E S \in FolderTrees, order \in {FolderUniverse, Reverse(FolderUniverse)} :
          folders = SelectSeq(order, LAMBDA f : f \in S)
    /\ \E root \in Roots, search \in Labels, done \in Labels :
          settings = Settings([search |-> search, done |-> done], <<"s">>, root)
    /\ notes = Vault(TO, TO, TRUE)
    /\ oAuth2Client = Authorised
    /\ encTokenData = 1
    /\ remote = {}
    /\ nextId = 1
    /\ now = 0
    /\ lastSyncDate = NoDate
    /\ savedSyncDate = NoDate
    /\ doneOnce = {}
    /\ pairsOut = <<>>
    /\ isQuickSync = FALSE
    /\ folderPairs = <<>>
    /\ scoped = <<>>
    /\ tasks = <<>>
    /\ idx = 0
    /\ matchingEvent = NoId
    /\ processedCount = 0
    /\ errorLogs = <<>>
    /\ calls = <<>>
    /\ outcome = None
    /\ pc = "pairs"
    /\ SideIdle

ResolvePairs ==
    /\ pc = "pairs"
    /\ pairsOut' = PairsOfSettings
    /\ pc' = "resolved"
    /\ UNCHANGED <<folders, notes, remote, nextId, now, settings, lastSyncDate,
                   savedSyncDate, encTokenData, oAuth2Client, passVars, doneOnce,
                   sideVars>>

NextPairs == ResolvePairs

SpecPairs == InitPairs /\ [][NextPairs]_vars

(***************************************************************************)
(* C9.  findFolderPairs returns exactly one entry per parent folder in the *)
(* subtree of root that has a child folder named searchLabel and another   *)
(* child folder named doneLabel, with searchPath and donePath those two    *)
(* children; a parent with only one of the two yields no entry.            *)
(***************************************************************************)
FolderSet == {folders[i] : i \in 1..Len(folders)} \cup {<<Slash>>}

InSubtree(f, root) ==
    /\ root \in FolderSet
    /\ (root = <<Slash>> \/ f = root \/ StartsWith(f, root \o <<Slash>>))

ChildNamed(parent, name) == IF parent = <<Slash>> THEN name ELSE Join(parent, name)

HasBothChildren(parent) ==
    /\ ChildNamed(parent, settings.searchFolderName) \in FolderSet
    /\ ChildNamed(parent, settings.doneFolderName) \in FolderSet
    /\ settings.searchFolderName # settings.doneFolderName

ExpectedPairs ==
    {[searchPath |-> ChildNamed(q, settings.searchFolderName),
      donePath |-> ChildNamed(q, settings.doneFolderName)] :
        q \in {f \in FolderSet : InSubtree(f, settings.taskFolderPath)
                                 /\ HasBothChildren(f)}}

C9_FolderPairing ==
    pc = "resolved" =>
        /\ {[searchPath |-> pairsOut[i].searchPath, donePath |-> pairsOut[i].donePath] :
               i \in 1..Len(pairsOut)} = ExpectedPairs
        /\ Len(pairsOut) = Cardinality(ExpectedPairs)

\* two independent parents each yield an entry while a third parent, holding
\* only a search folder, yields none
C9_Witness ==
    /\ pc = "resolved"
    /\ Len(pairsOut) = 2
    /\ \E f \in FolderSet :
          /\ InSubtree(f, settings.taskFolderPath)
          /\ ChildNamed(f, settings.searchFolderName) \in FolderSet
          /\ ChildNamed(f, settings.doneFolderName) \notin FolderSet

(***************************************************************************)
(* Reading the history of the pass in flight.                              *)
(***************************************************************************)
CallsOf(n) == SelectSeq(calls, LAMBDA c : c.note = n)
OpsOf(n) == [k \in 1..Len(CallsOf(n)) |-> CallsOf(n)[k].op]
HasCall(n, op, r) == \E k \in 1..Len(calls) : calls[k].note = n /\ calls[k].op = op
                                              /\ calls[k].r = r
HasOp(n, op) == \E k \in 1..Len(calls) : calls[k].note = n /\ calls[k].op = op
FailedCall(n) == \E k \in 1..Len(calls) : calls[k].note = n /\ calls[k].r = "fail"
Logged(n) == \E k \in 1..Len(errorLogs) : errorLogs[k] = FilePath(n)
Ended(i) == idx > i
LoopEnded == pc \in {"finish", "done"} /\ tasks # <<>>
DeleteTrigger(data) == Trim(data.status) = Trim(settings.deleteStatus)
DonePaths == {folderPairs[k].donePath : k \in 1..Len(folderPairs)}

(***************************************************************************)
(* C1.  A task with a back-reference, not marked for deletion, whose       *)
(* back-reference resolves to NotFound: update is never called for it and  *)
(* insert at most once; when its processing has ended and neither the      *)
(* mapping nor a call of the create branch failed, no error is recorded    *)
(* for it, insert was called exactly once and the note stores the id that  *)
(* insert returned.                                                        *)
(***************************************************************************)
C1_NotFoundRecreates ==
    \A i \in 1..Len(tasks) :
        LET n == tasks[i].file
            ins == {k \in 1..Len(calls) : calls[k].note = n /\ calls[k].op = "insert"}
        IN  (HasCall(n, "get", "notfound") /\ ~DeleteTrigger(tasks[i].data)) =>
               /\ ~HasOp(n, "update")
               /\ Cardinality(ins) <= 1
               /\ (Ended(i) /\ tasks[i].data.dateOk /\ ~FailedCall(n)) =>
                     /\ ~Logged(n)
                     /\ \E k \in ins : /\ calls[k].r = "ok"
                                       /\ notes[n].googleEventId = calls[k].id

C1_Witness ==
    /\ pc = "done"
    /\ \E n \in NoteNames :
          /\ OpsOf(n) = <<"get", "insert", "save">>
          /\ HasCall(n, "get", "notfound")
          /\ ~FailedCall(n)
          /\ ~Logged(n)
          /\ notes[n].googleEventId # NoId
          /\ notes[n].googleEventId \in remote

(***************************************************************************)
(* C2.  An exception raised while processing task k is caught at the       *)
(* per-task boundary: one entry with task k's path is appended to the      *)
(* error log and the loop goes on with task k+1, its task data untouched;  *)
(* no task gets two entries, and when the loop has ended every task of     *)
(* the pass was processed (it left a call or an error entry).              *)
(***************************************************************************)
C2_State ==
    /\ \A j, k \in 1..Len(errorLogs) : errorLogs[j] = errorLogs[k] => j = k
    /\ Len(errorLogs) <= Len(tasks)
    /\ LoopEnded =>
          /\ idx = Len(tasks) + 1
          /\ \A i \in 1..Len(tasks) :
                \/ Logged(tasks[i].file)
                \/ \E k \in 1..Len(calls) : calls[k].note = tasks[i].file

C2_Step ==
    Len(errorLogs') > Len(errorLogs) =>
        /\ errorLogs' = Append(errorLogs, FilePath(tasks[idx].file))
        /\ idx' = idx + 1
        /\ tasks' = tasks
        /\ matchingEvent' = NoId
        /\ pc' = IF idx < Len(tasks) THEN "resolve" ELSE "finish"

C2_ErrorIsolation == []C2_State /\ [][C2_Step]_vars

\* the first task threw during mapping and the second was created all the same
C2_Witness ==
    /\ pc = "done"
    /\ Len(tasks) = 2
    /\ ~tasks[1].data.dateOk
    /\ errorLogs = <<FilePath(tasks[1].file)>>
    /\ OpsOf(tasks[1].file) = <<>>
    /\ OpsOf(tasks[2].file) = <<"insert", "save">>
    /\ ~FailedCall(tasks[2].file)
    /\ notes[tasks[2].file].googleEventId \in remote

(***************************************************************************)
(* C3.  Every pass that reached per-task processing has, when its loop     *)
(* has ended and the pass is over, set lastSyncDate to the current time    *)
(* and persisted it, whatever the per-task outcomes were.                  *)
(***************************************************************************)
C3_CheckpointAlwaysAdvances ==
    (pc = "done" /\ tasks # <<>>) =>
        /\ lastSyncDate = <<now>>
        /\ savedSyncDate = <<now>>

\* a pass in which every task failed, at a time later than the old checkpoint
C3_Witness ==
    /\ pc = "done"
    /\ tasks # <<>>
    /\ Len(errorLogs) = Len(tasks)
    /\ now > 0
    /\ lastSyncDate = <<now>>
    /\ savedSyncDate = <<now>>

(***************************************************************************)
(* C4.  A task whose trimmed status equals the trimmed delete-trigger      *)
(* value and whose back-reference resolves to an existing event: the       *)
(* calls for it are, in this order, get, remote delete of that event,      *)
(* the write of the attribute block without googleEventId (twice), the     *)
(* relocation into a done folder; no insert or update is issued for it.    *)
(***************************************************************************)
DeletionSequence == <<"get", "delete", "save", "save", "move">>

C4_DeletionBranchOrder ==
    \A i \in 1..Len(tasks) :
        LET n == tasks[i].file
            cs == CallsOf(n)
        IN  (HasCall(n, "get", "ok") /\ DeleteTrigger(tasks[i].data)) =>
               /\ StartsWith(DeletionSequence, OpsOf(n))
               /\ ~HasOp(n, "insert") /\ ~HasOp(n, "update")
               /\ Len(cs) >= 2 => cs[2].id = cs[1].id
               /\ HasCall(n, "delete", "ok") => cs[1].id \notin remote
               /\ \A k \in 1..Len(cs) : cs[k].op = "save" => cs[k].id = NoId
               /\ HasCall(n, "save", "ok") => notes[n].googleEventId = NoId
               /\ HasCall(n, "move", "ok") => notes[n].folder \in DonePaths
               /\ (Ended(i) /\ ~FailedCall(n)) => OpsOf(n) = DeletionSequence

C4_Witness ==
    /\ pc = "done"
    /\ \E i \in 1..Len(tasks) :
          LET n == tasks[i].file
          IN  /\ tasks[i].data.status # settings.deleteStatus
              /\ DeleteTrigger(tasks[i].data)
              /\ OpsOf(n) = DeletionSequence
              /\ ~FailedCall(n)
              /\ notes[n].googleEventId = NoId
              /\ notes[n].folder \in DonePaths

(***************************************************************************)
(* C5.  A task marked for deletion that has no back-reference gets no      *)
(* calendar call and is relocated to the done folder; a later pass issues  *)
(* no calendar call for that note and neither moves nor modifies it.       *)
(***************************************************************************)
C5_DeleteIdempotent ==
    /\ \A i \in 1..Len(tasks) :
          LET n == tasks[i].file
          IN  (DeleteTrigger(tasks[i].data) /\ tasks[i].data.googleEventId = NoId
               /\ ~HasOp(n, "get")) =>
                 /\ \A k \in 1..Len(calls) :
                       calls[k].note = n => calls[k].op \notin CalendarOps
                 /\ (Ended(i) /\ ~FailedCall(n)) => notes[n].folder \in DonePaths
    /\ \A k \in 1..Len(calls) : calls[k].note \notin doneOnce

(***************************************************************************)
(* C6.  A task marked for deletion whose back-reference resolves to        *)
(* NotFound proceeds as if it had no back-reference: no remote delete is   *)
(* attempted, no error is recorded, and the note is relocated to the done  *)
(* folder with its back-reference cleared.                                 *)
(***************************************************************************)
C6_DeleteAfterNotFound ==
    \A i \in 1..Len(tasks) :
        LET n == tasks[i].file
        IN  (HasCall(n, "get", "notfound") /\ DeleteTrigger(tasks[i].data)) =>
               /\ ~HasOp(n, "delete")
               /\ (Ended(i) /\ ~HasCall(n, "save", "fail") /\ ~HasCall(n, "move", "fail")) =>
                     /\ ~Logged(n)
                     /\ notes[n].folder \in DonePaths
                     /\ notes[n].googleEventId = NoId

(***************************************************************************)
(* C7.  In quick mode with a stored checkpoint T a folder-scoped task is   *)
(* processed iff its note's creation time > T or its modification time     *)
(* > T; in quick mode without a checkpoint, and in full mode, every        *)
(* folder-scoped task is processed.                                        *)
(***************************************************************************)
Changed(n) == notes[n].ctime > lastSyncDate[1] \/ notes[n].mtime > lastSyncDate[1]

C7_IncrementalFilter ==
    /\ (pc = "resolve" /\ idx = 1) =>
          \A k \in 1..Len(scoped) :
              (\E i \in 1..Len(tasks) : tasks[i].file = scoped[k])
                 <=> (IF isQuickSync /\ lastSyncDate # NoDate
                      THEN Changed(scoped[k]) ELSE TRUE)
    /\ (pc = "done" /\ outcome = "noneAfterFilter") =>
          /\ isQuickSync /\ lastSyncDate # NoDate
          /\ \A k \in 1..Len(scoped) : ~Changed(scoped[k])

\* a quick pass processes a task created after the checkpoint although its
\* modification time is the checkpoint itself
C7_Witness ==
    /\ pc = "resolve" /\ idx = 1
    /\ isQuickSync /\ lastSyncDate # NoDate
    /\ \E i \in 1..Len(tasks) :
          /\ notes[tasks[i].file].ctime > lastSyncDate[1]
          /\ notes[tasks[i].file].mtime = lastSyncDate[1]

(***************************************************************************)
(* C8.  After the create branch succeeded the note stores the id insert    *)
(* returned; a pass reads the stored id into the task, and for a task      *)
(* whose back-reference resolves to an existing event and that is not      *)
(* marked for deletion insert is not called: update addresses that id.     *)
(***************************************************************************)
C8_CreateOnceThenUpdate ==
    \A i \in 1..Len(tasks) :
        LET n == tasks[i].file
            cs == CallsOf(n)
        IN  /\ (pc = "resolve" /\ idx = i) =>
                  tasks[i].data.googleEventId = notes[n].googleEventId
            /\ (HasCall(n, "insert", "ok") /\ HasCall(n, "save", "ok")) =>
                  \E k \in 1..Len(cs) : /\ cs[k].op = "insert"
                                        /\ notes[n].googleEventId = cs[k].id
                                        /\ cs[k].id # NoId
            /\ (HasCall(n, "get", "ok") /\ ~DeleteTrigger(tasks[i].data)) =>
                  /\ ~HasOp(n, "insert")
                  /\ notes[n].googleEventId = cs[1].id
                  /\ \A k \in 1..Len(cs) :
                        cs[k].op = "update" => cs[k].id = cs[1].id /\ cs[k].body = cs[1].id
                  /\ (Ended(i) /\ tasks[i].data.dateOk /\ ~FailedCall(n)) =>
                        OpsOf(n) = <<"get", "update">>

\* a later pass updates the event an earlier pass created
C8_Witness ==
    /\ pc = "done"
    /\ \E n \in NoteNames :
          /\ OpsOf(n) = <<"get", "update">>
          /\ ~FailedCall(n)
          /\ CallsOf(n)[2].id = notes[n].googleEventId
          /\ notes[n].googleEventId \in remote

(***************************************************************************)
(* C10.  A pass that stops on a pass-level precondition has made no        *)
(* remote call of any kind, the token refresh exchange included.           *)
(***************************************************************************)
PreconditionStops == {"noClient", "noToken", "threwStatus", "noPairs", "noTasks",
                      "noneAfterFilter"}

C10_NoRemoteCallBeforeStop ==
    (pc = "done" /\ outcome \in PreconditionStops) =>
        \A k \in 1..Len(calls) : calls[k].op \notin RemoteOps

(***************************************************************************)
(* Bulk cleanup: deleteAllGoogleEventsFromTasks and the sweep over the     *)
(* vault.  The attribute block of a note is a sequence of lines, each a    *)
(* string, so that the line filter of removeGoogleEventIdField is computed *)
(* on text as the code computes it.                                        *)
(***************************************************************************)
GoogleEventIdKey == <<"g", "o", "o", "g", "l", "e", "E", "v", "e", "n", "t", "I", "d", ":">>

\* `${googleEventId}`: the decimal text of an id
DigitChars == <<"1", "2", "3", "4", "5", "6", "7", "8", "9">>
IdText(id) == <<DigitChars[id]>>

\* String.prototype.includes
Includes(s, sub) ==
    \E k \in 1..Len(s) : k + Len(sub) <= Len(s) + 1 /\ SubSeq(s, k, k + Len(sub) - 1) = sub

\* `${key}: ${value}` of saveTaskDataToYaml
StatusLine(note) == settings.status \o <<":", " ">> \o note.status
IdLine(id) == GoogleEventIdKey \o <<" ">> \o IdText(id)
YamlLines(note) ==
    <<StatusLine(note)>> \o
        (IF note.googleEventId = NoId THEN <<>> ELSE <<IdLine(note.googleEventId)>>)

\* the id the metadata cache reads back from the lines of a block
IdOfLines(lines) ==
    IF \E id \in 1..Len(DigitChars) : \E k \in 1..Len(lines) : lines[k] = IdLine(id)
    THEN CHOOSE id \in 1..Len(DigitChars) : \E k \in 1..Len(lines) : lines[k] = IdLine(id)
    ELSE NoId

\* part_002:123-128, the filter callback: TRUE for a line that is kept
KeepsLine(line, googleEventId) ==
    IF googleEventId # NoId
       /\ Includes(line, GoogleEventIdKey \o <<" ">> \o IdText(googleEventId))
    THEN FALSE
    ELSE ~StartsWith(Trim(line), GoogleEventIdKey)

\* removeGoogleEventIdField: the lines left in the block of a note
updatedYamlContent(note, googleEventId) ==
    SelectSeq(YamlLines(note), LAMBDA line : KeepsLine(line, googleEventId))

\* line 130: the note is written only when a line was removed
IsRewritten(note, googleEventId) ==
    Len(YamlLines(note)) # Len(updatedYamlContent(note, googleEventId))

removeGoogleEventIdField(note, googleEventId) ==
    IF IsRewritten(note, googleEventId)
    THEN [note EXCEPT !.googleEventId = IdOfLines(updatedYamlContent(note, googleEventId)),
                      !.mtime = now]
    ELSE note

\* processVaultFilesForDeletion: the files in vault order; the write of file
\* number failAt throws (0: no write throws) and ends the sweep there
processVaultFilesForDeletion(googleEventId, failAt) ==
    [n \in NoteNames |->
        LET k == CHOOSE j \in 1..Len(NoteOrder) : NoteOrder[j] = n
        IN  IF failAt = 0 \/ k < failAt
            THEN removeGoogleEventIdField(notes[n], googleEventId)
            ELSE notes[n]]

\* response.data.items of events.list: the events of the calendar, by id
RECURSIVE Listing(_)
Listing(S) ==
    IF S = {} THEN <<>>
    ELSE LET e == CHOOSE x \in S : \A y \in S : x <= y
         IN  <<e>> \o Listing(S \ {e})


\* part_002:42-58: the token exchange, the listing, the empty-listing return
deleteAllGoogleEventsFromTasks ==
    /\ pc = "idle"
    /\ \E exchanged \in BOOLEAN, listed \in BOOLEAN :
          /\ IF oAuth2Client.set /\ oAuth2Client.refresh_token
             THEN /\ calls' = Append(calls, Call("token", None, NoId, NoId,
                                                 IF exchanged THEN "ok" ELSE "fail"))
                  /\ encTokenData' = IF exchanged THEN 3 - encTokenData ELSE encTokenData
                  /\ expiry_date' = IF exchanged THEN now + TokenLifetime ELSE expiry_date
             ELSE exchanged /\ UNCHANGED <<calls, encTokenData, expiry_date>>
          /\ IF ~oAuth2Client.set \/ ~listed
             THEN /\ pc' = "cleaned" /\ outcome' = "threw"
                  /\ oAuth2Client.set \/ listed
                  /\ UNCHANGED cleanupVars
             ELSE /\ eventsToDelete' = Listing(remote)
                  /\ eventIdx' = 1
                  /\ IF remote = {}
                     THEN pc' = "cleaned" /\ outcome' = "noEvents"
                     ELSE pc' = "cleanup" /\ outcome' = None
    /\ UNCHANGED <<folders, notes, remote, nextId, now, settings, doneOnce, pairsOut,
                   mapperVars, suspended, logFiles, server, listeners,
                   fileContent, yamlData, fileHistory, lastSyncDate, savedSyncDate, oAuth2Client,
                   isQuickSync,
                   folderPairs, scoped, tasks, idx, matchingEvent, processedCount,
                   errorLogs>>

\* the loop that gives up at the first event whose deletion failed
NextEventAborting(failed) ==
    IF failed
    THEN pc' = "cleaned" /\ outcome' = "threw" /\ eventIdx' = eventIdx
    ELSE /\ eventIdx' = eventIdx + 1
         /\ IF eventIdx < Len(eventsToDelete)
            THEN pc' = "cleanup" /\ outcome' = None
            ELSE pc' = "cleaned" /\ outcome' = "swept"

\* part_002:60-73: the loop goes on whether or not the event's deletion
\* failed (catch at 97-101, catch at 65-67)
NextEvent(failed) ==
    /\ eventIdx' = eventIdx + 1
    /\ IF eventIdx < Len(eventsToDelete)
       THEN pc' = "cleanup" /\ outcome' = None
       ELSE pc' = "cleaned" /\ outcome' = "swept"

\* part_002:77-102 for eventsToDelete[i]: the remote delete, then the sweep
deleteEventAndRemoveField ==
    /\ pc = "cleanup"
    /\ LET e == eventsToDelete[eventIdx]
       IN  \E ok \in BOOLEAN, failAt \in 0..Len(NoteOrder) :
              /\ ok => e \in remote
              /\ IF ok
                 THEN /\ failAt # 0 => IsRewritten(notes[NoteOrder[failAt]], e)
                      /\ remote' = remote \ {e}
                      /\ notes' = processVaultFilesForDeletion(e, failAt)
                      /\ calls' = Append(calls, Call("delete", None, e, NoId, "ok"))
                      /\ NextEvent(failAt # 0)
                 ELSE /\ failAt = 0
                      /\ calls' = Append(calls, Call("delete", None, e, NoId, "fail"))
                      /\ NextEvent(TRUE)
                      /\ UNCHANGED <<remote, notes>>
    /\ UNCHANGED <<folders, nextId, now, settings, doneOnce, pairsOut, mapperVars, suspended, expiry_date, logFiles, server, listeners,
                   fileContent, yamlData, fileHistory,
                   eventsToDelete, lastSyncDate, savedSyncDate, encTokenData,
                   oAuth2Client, isQuickSync, folderPairs, scoped, tasks, idx,
                   matchingEvent, processedCount, errorLogs>>

\* the operation is over (returned or threw): back to the idle plugin
CleanupReturn ==
    /\ pc = "cleaned"
    /\ pc' = "idle"
    /\ eventsToDelete' = <<>>
    /\ eventIdx' = 0
    /\ calls' = <<>>
    /\ outcome' = None
    /\ UNCHANGED <<folders, notes, remote, nextId, now, settings, doneOnce, pairsOut,
                   mapperVars, suspended, expiry_date, logFiles, server, listeners,
                   fileContent, yamlData, fileHistory, lastSyncDate, savedSyncDate, encTokenData, oAuth2Client,
                   isQuickSync, folderPairs, scoped, tasks, idx, matchingEvent,
                   processedCount, errorLogs>>

\* an event of the primary calendar that no note refers to
UserEvent == MaxEvents + 1

\* a vault some passes have synchronised, and a calendar the user also uses
InitCleanup ==
    /\ \E ga \in 0..MaxEvents, gb \in 0..MaxEvents :
          notes = [Vault(TO, TO, TRUE) EXCEPT !["a"].googleEventId = ga,
                                              !["b"].googleEventId = gb]
    /\ remote \in SUBSET (1..UserEvent)
    /\ nextId = UserEvent + 1
    /\ oAuth2Client \in {NoClient, Authorised, Refreshable}
    /\ encTokenData = 1
    /\ folders = DefaultLayout.fs
    /\ settings = Settings(DefaultLayout, <<"s">>, T)
    /\ now = 0
    /\ lastSyncDate = NoDate
    /\ savedSyncDate = NoDate
    /\ doneOnce = {}
    /\ pairsOut = <<>>
    /\ PassIdle
    /\ SideIdle

NextCleanup ==
    \/ deleteAllGoogleEventsFromTasks
    \/ deleteEventAndRemoveField
    \/ CleanupReturn

SpecCleanup == InitCleanup /\ [][NextCleanup]_vars

(***************************************************************************)
(* C11.  In bulk cleanup, the processing of an event E changes only notes  *)
(* whose back-reference equals E's id: a note with another back-reference  *)
(* or with none is the same after the step as before it.                   *)
(***************************************************************************)
SweepLeavesOthers ==
    pc = "cleanup" =>
        \A n \in NoteNames :
            notes[n].googleEventId # eventsToDelete[eventIdx] => notes'[n] = notes[n]

C11_SweepOnlyMatchingNotes == [][SweepLeavesOthers]_vars

(***************************************************************************)
(* C12.  Bulk cleanup deletes only events that some note refers to: an     *)
(* event of the calendar that no note references is never the target of a  *)
(* delete call of the cleanup.                                             *)
(***************************************************************************)
C12_OnlyDerivedEventsDeleted ==
    pc \in {"cleanup", "cleaned"} =>
        \A k \in 1..Len(calls) : calls[k].op = "delete" => calls[k].id # UserEvent

(***************************************************************************)
(* C13.  In bulk cleanup a failed remote delete of one listed event does   *)
(* not stop the sweep: the delete calls made so far are, in order, those   *)
(* for the events before the loop index, and once the listing was          *)
(* non-empty the operation ends having attempted every listed event,       *)
(* without raising.                                                        *)
(***************************************************************************)
DeleteCalls == SelectSeq(calls, LAMBDA c : c.op = "delete")

C13_CleanupContinuesAfterFailure ==
    /\ pc = "cleanup" =>
          /\ eventIdx \in 1..Len(eventsToDelete)
          /\ Len(DeleteCalls) = eventIdx - 1
    /\ (pc = "cleaned" /\ eventsToDelete # <<>>) =>
          /\ outcome = "swept"
          /\ Len(DeleteCalls) = Len(eventsToDelete)
    /\ pc \in {"cleanup", "cleaned"} =>
          \A k \in 1..Len(DeleteCalls) : DeleteCalls[k].id = eventsToDelete[k]

\* the first listed event could not be deleted, the second was
C13_Witness ==
    /\ pc = "cleaned"
    /\ outcome = "swept"
    /\ Len(eventsToDelete) >= 2
    /\ DeleteCalls[1].r = "fail"
    /\ DeleteCalls[2].r = "ok"
    /\ eventsToDelete[1] \in remote
    /\ eventsToDelete[2] \notin remote

(***************************************************************************)
(* The field mapper, mapYamlToEvent.  Raw attribute values are strings;    *)
(* new Date(s) and toISOString are computed on their characters.  An       *)
(* attribute block is a function whose domain is the set of keys present;  *)
(* an event is a function whose domain is the set of attributes present.   *)
(***************************************************************************)
Decimal == <<"0", "1", "2", "3", "4", "5", "6", "7", "8", "9">>
IsDigit(c) == \E d \in 1..Len(Decimal) : Decimal[d] = c
DigitVal(c) == (CHOOSE d \in 1..Len(Decimal) : Decimal[d] = c) - 1
AllDigits(s) == \A k \in 1..Len(s) : IsDigit(s[k])
RECURSIVE NumVal(_)
NumVal(s) == IF s = <<>> THEN 0
             ELSE 10 * NumVal(SubSeq(s, 1, Len(s) - 1)) + DigitVal(s[Len(s)])
Pad2(n) == <<Decimal[(n \div 10) + 1], Decimal[(n % 10) + 1]>>
Pad4(n) == Pad2(n \div 100) \o Pad2(n % 100)

\* an Invalid Date (getTime() is NaN)
InvalidDate == [valid |-> FALSE, y |-> 0, m |-> 0, d |-> 0, h |-> 0, mi |-> 0]
Instant(y, m, d, h, mi) ==
    IF m \in 1..12 /\ d \in 1..31 /\ h \in 0..23 /\ mi \in 0..59
    THEN [valid |-> TRUE, y |-> y, m |-> m, d |-> d, h |-> h, mi |-> mi]
    ELSE InvalidDate

\* the literal forms new Date(string) is given here: YYYY-MM-DD,
\* YYYY-MM-DDTHH:MM and MM/DD/YYYY; anything else is an Invalid Date
IsIsoDate(s) ==
    /\ Len(s) = 10 /\ s[5] = "-" /\ s[8] = "-"
    /\ AllDigits(SubSeq(s, 1, 4) \o SubSeq(s, 6, 7) \o SubSeq(s, 9, 10))
IsIsoDateTime(s) ==
    /\ Len(s) = 16 /\ IsIsoDate(SubSeq(s, 1, 10)) /\ s[11] = "T" /\ s[14] = ":"
    /\ AllDigits(SubSeq(s, 12, 13) \o SubSeq(s, 15, 16))
IsSlashDate(s) ==
    /\ Len(s) = 10 /\ s[3] = "/" /\ s[6] = "/"
    /\ AllDigits(SubSeq(s, 1, 2) \o SubSeq(s, 4, 5) \o SubSeq(s, 7, 10))

NewDate(s) ==
    IF IsIsoDate(s)
    THEN Instant(NumVal(SubSeq(s, 1, 4)), NumVal(SubSeq(s, 6, 7)), NumVal(SubSeq(s, 9, 10)),
                 0, 0)
    ELSE IF IsIsoDateTime(s)
    THEN Instant(NumVal(SubSeq(s, 1, 4)), NumVal(SubSeq(s, 6, 7)), NumVal(SubSeq(s, 9, 10)),
                 NumVal(SubSeq(s, 12, 13)), NumVal(SubSeq(s, 15, 16)))
    ELSE IF IsSlashDate(s)
    THEN Instant(NumVal(SubSeq(s, 7, 10)), NumVal(SubSeq(s, 1, 2)), NumVal(SubSeq(s, 4, 5)),
                 0, 0)
    ELSE InvalidDate

\* new Date(): the current instant
NewDateNow == [valid |-> TRUE, y |-> 2024, m |-> 1, d |-> 1, h |-> 0, mi |-> now]

toISOString(t) ==
    Pad4(t.y) \o <<"-">> \o Pad2(t.m) \o <<"-">> \o Pad2(t.d) \o <<"T">> \o Pad2(t.h)
        \o <<":">> \o Pad2(t.mi) \o <<":", "0", "0", ".", "0", "0", "0", "Z">>

\* s.split(sep)[0]
FirstPiece(s, sep) ==
    IF \E k \in 1..Len(s) : s[k] = sep
    THEN SubSeq(s, 1, (CHOOSE k \in 1..Len(s) : s[k] = sep /\ \A j \in 1..(k - 1) : s[j] # sep) - 1)
    ELSE s

\* s.split(sep)
RECURSIVE Split(_, _)
Split(s, sep) ==
    IF \E k \in 1..Len(s) : s[k] = sep
    THEN <<FirstPiece(s, sep)>> \o Split(SubSeq(s, Len(FirstPiece(s, sep)) + 2, Len(s)), sep)
    ELSE <<s>>

\* JSON.parse for the texts used here: null, an array [..], anything else throws
JsonParse(s) ==
    IF s = <<"n", "u", "l", "l">> THEN [ok |-> TRUE, null |-> TRUE, items |-> <<>>]
    ELSE IF Len(s) >= 2 /\ s[1] = "[" /\ s[Len(s)] = "]"
    THEN [ok |-> TRUE, null |-> FALSE,
          items |-> IF Len(s) = 2 THEN <<>> ELSE Split(SubSeq(s, 2, Len(s) - 1), ",")]
    ELSE [ok |-> FALSE, null |-> FALSE, items |-> <<>>]

\* taskData[key] is truthy; taskData[key] is not undefined
Truthy(data, key) == key # "" /\ key \in DOMAIN data /\ data[key] # <<>>
Defined(data, key) == key # "" /\ key \in DOMAIN data

\* lines 32-52 for one role whose value is copied as it is
CopiedField(data, maps, role) ==
    IF maps[role] # "" /\ Truthy(data, maps[role])
    THEN role :> data[maps[role]]
    ELSE <<>>

\* lines 38-40, 44-46 for a role whose value goes through JSON.parse
ParsedField(data, maps, role) ==
    IF maps[role] # "" /\ Truthy(data, maps[role])
    THEN role :> JsonParse(data[maps[role]])
    ELSE <<>>

JsonThrows(data, maps, role) ==
    maps[role] # "" /\ Truthy(data, maps[role]) /\ ~JsonParse(data[maps[role]]).ok

Threw == [kind |-> "threw"]
Returned(ev) == [kind |-> "returned", event |-> ev]

\* lines 20-27 with the test replaced by one on the start value alone
StartEndOnStartOnly(data, maps, startDate, endDate) ==
    IF Len(data[maps.start]) = 10
    THEN ("start" :> [date |-> FirstPiece(toISOString(startDate), "T")])
         @@ ("end" :> [dateTime |-> toISOString(endDate)])
    ELSE ("start" :> [dateTime |-> toISOString(startDate)])
         @@ ("end" :> [dateTime |-> toISOString(endDate)])

\* lines 20-27: all-day or timed
StartEnd(data, maps, startDate, endDate) ==
    IF Len(data[maps.start]) = 10 /\ Len(data[maps["end"]]) = 10
    THEN ("start" :> [date |-> FirstPiece(toISOString(startDate), "T")])
         @@ ("end" :> [date |-> FirstPiece(toISOString(endDate), "T")])
    ELSE ("start" :> [dateTime |-> toISOString(startDate)])
         @@ ("end" :> [dateTime |-> toISOString(endDate)])

\* lines 31-52 with the guards on the task value dropped
OptionalFieldsUnguarded(data, maps) ==
    [role \in {r \in {"location", "colorId", "visibility"} : maps[r] # ""} |->
        IF Truthy(data, maps[role]) THEN data[maps[role]] ELSE <<>>]

\* lines 31-52: the optional attributes (description is overwritten at 54-56)
OptionalFields(data, maps) ==
    CopiedField(data, maps, "location") @@ ParsedField(data, maps, "attendees")
    @@ CopiedField(data, maps, "colorId") @@ ParsedField(data, maps, "reminders")
    @@ (IF maps["recurrence"] # "" /\ Truthy(data, maps["recurrence"])
        THEN "recurrence" :> Split(data[maps["recurrence"]], ",")
        ELSE <<>>)
    @@ CopiedField(data, maps, "visibility")

\* mapYamlToEvent(plugin, taskData, file), file given
mapYamlToEvent(data, maps, googleEventId) ==
    LET startDate == IF Truthy(data, maps.start) THEN NewDate(data[maps.start])
                     ELSE NewDateNow
        endDate == IF Truthy(data, maps["end"]) THEN NewDate(data[maps["end"]])
                   ELSE NewDateNow
    IN  IF ~startDate.valid \/ ~endDate.valid THEN Threw
        ELSE IF ~Defined(data, maps.start) THEN Threw
        ELSE IF Len(data[maps.start]) = 10 /\ ~Defined(data, maps["end"]) THEN Threw
        ELSE IF JsonThrows(data, maps, "attendees") \/ JsonThrows(data, maps, "reminders")
        THEN Threw
        ELSE Returned(
                StartEnd(data, maps, startDate, endDate)
                @@ ("summary" :> IF Truthy(data, maps.name) THEN data[maps.name]
                                 ELSE <<"f", "i", "l", "e">>)
                @@ OptionalFields(data, maps)
                @@ ("description" :> <<"b", "o", "d", "y">>)
                @@ (IF googleEventId # NoId THEN "id" :> googleEventId ELSE <<>>))

(***************************************************************************)
(* Inputs of the field mapper: attribute blocks and field mappings.        *)
(***************************************************************************)
IsoDay == <<"2", "0", "2", "4", "-", "0", "1", "-", "0", "2">>
IsoTime == IsoDay \o <<"T", "0", "3", ":", "0", "4">>
SlashDay == <<"0", "1", "/", "0", "2", "/", "2", "0", "2", "4">>
BadDay == <<"2", "0", "2", "4", "-", "1", "3", "-", "0", "2">>
Junk == <<"x">>

\* how a key of the block is filled: not at all, with "", or with a text
DateFills == {"absent", "empty", "isoDay", "isoTime", "slashDay", "badDay", "junk"}
RawDate(fill) ==
    CASE fill = "empty" -> <<>>
      [] fill = "isoDay" -> IsoDay
      [] fill = "isoTime" -> IsoTime
      [] fill = "slashDay" -> SlashDay
      [] fill = "badDay" -> BadDay
      [] fill = "junk" -> Junk

CopiedRoles == {"location", "colorId", "visibility"}
ParsedRoles == {"attendees", "reminders"}
OptionalRoles == CopiedRoles \cup ParsedRoles \cup {"recurrence"}
Roles == {"start", "end", "name", "description", "status"} \cup OptionalRoles

\* a role left unmapped (its key absent or present in the block), or mapped
\* with its key absent, "", or a text
RoleFills == {"unmapped", "unmappedValue", "absent", "empty", "value", "null", "bad"}
FillsOf(role) ==
    IF role \in ParsedRoles THEN RoleFills ELSE RoleFills \ {"null", "bad"}
RawValue(role, fill) ==
    CASE fill = "empty" -> <<>>
      [] fill = "null" -> <<"n", "u", "l", "l">>
      [] fill = "bad" -> Junk
      [] fill \in {"value", "unmappedValue"} ->
            IF role \in ParsedRoles THEN <<"[", "1", "]">>
            ELSE IF role = "recurrence" THEN <<"a", ",", "b">>
            ELSE <<"v">>

\* the attribute block and the mappings for the given fills
BlockOf(startFill, endFill, fills, googleEventId) ==
    [k \in ({"start" : x \in {startFill} \ {"absent"}}
            \cup {"end" : x \in {endFill} \ {"absent"}}
            \cup {r \in OptionalRoles : fills[r] \notin {"unmapped", "absent"}}
            \cup {"googleEventId" : x \in {googleEventId} \ {NoId}}) |->
        IF k = "start" THEN RawDate(startFill)
        ELSE IF k = "end" THEN RawDate(endFill)
        ELSE IF k = "googleEventId" THEN googleEventId
        ELSE RawValue(k, fills[k])]

MappingsOf(fills) ==
    [r \in Roles |->
        IF r \in OptionalRoles
        THEN IF fills[r] \in {"unmapped", "unmappedValue"} THEN "" ELSE r
        ELSE IF r = "description" THEN "" ELSE r]

AllUnmapped == [r \in OptionalRoles |-> "unmapped"]

InitMap ==
    /\ \/ \E startFill \in DateFills, endFill \in DateFills, gid \in {NoId, MaxEvents} :
             /\ taskData = BlockOf(startFill, endFill, AllUnmapped, gid)
             /\ mappings = MappingsOf(AllUnmapped)
       \/ \E fills \in [OptionalRoles -> RoleFills] :
             /\ \A r \in OptionalRoles : fills[r] \in FillsOf(r)
             /\ taskData = BlockOf("isoDay", "isoTime", fills, NoId)
             /\ mappings = MappingsOf(fills)
    /\ mappedEvent = [kind |-> "none"]
    /\ eventsToDelete = <<>>
    /\ eventIdx = 0
    /\ suspended = <<>>
    /\ expiry_date = NoExpiry
    /\ logFiles = <<>>
    /\ server = 0
    /\ listeners = <<>>
    /\ fileContent = <<>>
    /\ yamlData = <<>>
    /\ fileHistory = <<>>
    /\ notes = Vault(TO, TO, TRUE)
    /\ remote = {}
    /\ nextId = 1
    /\ oAuth2Client = Authorised
    /\ encTokenData = 1
    /\ folders = DefaultLayout.fs
    /\ settings = Settings(DefaultLayout, <<"s">>, T)
    /\ now = 0
    /\ lastSyncDate = NoDate
    /\ savedSyncDate = NoDate
    /\ doneOnce = {}
    /\ pairsOut = <<>>
    /\ PassIdle

\* one call of mapYamlToEvent on the block
MapTask ==
    /\ mappedEvent.kind = "none"
    /\ mappedEvent' = mapYamlToEvent(taskData, mappings,
                                     IF "googleEventId" \in DOMAIN taskData
                                     THEN taskData["googleEventId"] ELSE NoId)
    /\ UNCHANGED <<folders, notes, remote, nextId, now, settings, doneOnce, pairsOut,
                   cleanupVars, suspended, expiry_date, logFiles, server, listeners,
                   fileContent, yamlData, fileHistory, taskData, mappings, lastSyncDate, savedSyncDate,
                   encTokenData, oAuth2Client, pc, passVars>>

NextMap == MapTask

SpecMap == InitMap /\ [][NextMap]_vars

(***************************************************************************)
(* Reading the inputs and the result of a mapping.                         *)
(***************************************************************************)
Mapped == mappedEvent.kind # "none"
MapReturned == mappedEvent.kind = "returned"
BoundGiven(role) == Truthy(taskData, mappings[role])
BoundValid(role) == BoundGiven(role) /\ NewDate(taskData[mappings[role]]).valid
NowText == toISOString(NewDateNow)
NoJsonThrows == ~JsonThrows(taskData, mappings, "attendees")
                /\ ~JsonThrows(taskData, mappings, "reminders")

(***************************************************************************)
(* C14.  When the start and the end value are both present and parse as    *)
(* valid instants, the event mapYamlToEvent returns is all-day (start.date *)
(* and end.date, each a date-only text, no dateTime) iff both raw values   *)
(* have length exactly 10, and timed (start.dateTime and end.dateTime, no   *)
(* date) otherwise; start and end are never of mixed kinds.                *)
(***************************************************************************)
C14_AllDayIffBothLength10 ==
    /\ (Mapped /\ BoundValid("start") /\ BoundValid("end") /\ NoJsonThrows) =>
          /\ MapReturned
          /\ LET ev == mappedEvent.event
                 bothTen == Len(taskData[mappings["start"]]) = 10
                            /\ Len(taskData[mappings["end"]]) = 10
             IN  IF bothTen
                 THEN /\ DOMAIN ev["start"] = {"date"} /\ DOMAIN ev["end"] = {"date"}
                      /\ IsIsoDate(ev["start"].date) /\ IsIsoDate(ev["end"].date)
                 ELSE /\ DOMAIN ev["start"] = {"dateTime"}
                      /\ DOMAIN ev["end"] = {"dateTime"}
    /\ MapReturned => DOMAIN mappedEvent.event["start"] = DOMAIN mappedEvent.event["end"]

\* an all-day event from a start written MM/DD/YYYY and an end written YYYY-MM-DD
C14_Witness ==
    /\ MapReturned
    /\ {"start", "end"} \subseteq DOMAIN taskData
    /\ taskData["start"] = SlashDay
    /\ taskData["end"] = IsoDay
    /\ mappedEvent.event["start"] = [date |-> IsoDay]
    /\ mappedEvent.event["end"] = [date |-> IsoDay]

(***************************************************************************)
(* C15.  When the block has no value, or an empty one, under the mapped    *)
(* start key or the mapped end key (and the other bound, if given, is      *)
(* valid), mapYamlToEvent does not fail: it returns an event whose         *)
(* missing bound is the current instant.                                   *)
(***************************************************************************)
C15_MissingBoundDefaultsToNow ==
    (/\ Mapped
     /\ ~BoundGiven("start") \/ ~BoundGiven("end")
     /\ BoundGiven("start") => BoundValid("start")
     /\ BoundGiven("end") => BoundValid("end")
     /\ NoJsonThrows) =>
        /\ MapReturned
        /\ ~BoundGiven("start") => mappedEvent.event["start"] = [dateTime |-> NowText]
        /\ ~BoundGiven("end") => mappedEvent.event["end"] = [dateTime |-> NowText]

(***************************************************************************)
(* C16.  For each optional role (location, attendees, colorId, reminders,  *)
(* recurrence, visibility) the returned event contains the attribute iff   *)
(* the role is mapped to a non-empty key and the block has a non-empty     *)
(* value under that key; otherwise the attribute is not in the event.      *)
(***************************************************************************)
C16_OptionalFieldOmission ==
    MapReturned =>
        \A r \in OptionalRoles :
            /\ (r \in DOMAIN mappedEvent.event)
                  <=> (mappings[r] # "" /\ Truthy(taskData, mappings[r]))
            /\ (r \in CopiedRoles /\ r \in DOMAIN mappedEvent.event) =>
                  mappedEvent.event[r] = taskData[mappings[r]] /\ mappedEvent.event[r] # <<>>

\* location copied; colorId mapped but empty, visibility unmapped with a
\* value in the block, attendees mapped with its key absent: all three absent
C16_Witness ==
    /\ MapReturned
    /\ {"location", "colorId", "visibility"} \subseteq DOMAIN taskData
    /\ "location" \in DOMAIN mappedEvent.event
    /\ mappedEvent.event["location"] = <<"v">>
    /\ mappings["colorId"] # "" /\ taskData["colorId"] = <<>>
    /\ mappings["visibility"] = "" /\ taskData["visibility"] = <<"v">>
    /\ mappings["attendees"] # "" /\ "attendees" \notin DOMAIN taskData
    /\ DOMAIN mappedEvent.event \cap {"colorId", "visibility", "attendees"} = {}

(***************************************************************************)
(* C17.  Within one pass the tasks are processed one after another in      *)
(* extraction order: the tasks of the loop are in the order of the         *)
(* extraction, every remote call and note mutation belongs to the task     *)
(* the loop is at, and in the history no call of an earlier task follows   *)
(* a call of a later one.                                                  *)
(***************************************************************************)
PositionIn(q, x) == CHOOSE k \in 1..Len(q) : q[k] = x
TaskNumber(n) == CHOOSE i \in 1..Len(tasks) : tasks[i].file = n
TaskCalls == SelectSeq(calls, LAMBDA c : c.note # None)
InLoop == tasks # <<>> /\ pc \notin {"idle", "cleanup", "cleaned"}

C17_State ==
    InLoop =>
        /\ \A i, j \in 1..Len(tasks) :
              i < j => PositionIn(scoped, tasks[i].file) < PositionIn(scoped, tasks[j].file)
        /\ \A k \in 1..Len(TaskCalls) :
              /\ \E i \in 1..Len(tasks) : tasks[i].file = TaskCalls[k].note
              /\ TaskNumber(TaskCalls[k].note) <= idx
              /\ (pc = "resolve") => TaskNumber(TaskCalls[k].note) < idx
        /\ \A j, k \in 1..Len(TaskCalls) :
              j < k => TaskNumber(TaskCalls[j].note) <= TaskNumber(TaskCalls[k].note)

C17_Step ==
    (InLoop /\ idx \in 1..Len(tasks)) =>
        /\ \A n \in NoteNames : notes'[n] # notes[n] => n = tasks[idx].file
        /\ Len(calls') > Len(calls) =>
              calls'[Len(calls')].note \in {None, tasks[idx].file}
        /\ idx' \in {idx, idx + 1}

C17_SequentialInOrder == []C17_State /\ [][C17_Step]_vars

\* both tasks created, the calls of the first all before those of the second
C17_Witness ==
    /\ pc = "done"
    /\ Len(tasks) = 2
    /\ [k \in 1..Len(TaskCalls) |-> TaskCalls[k].note]
          = <<tasks[1].file, tasks[1].file, tasks[2].file, tasks[2].file>>
    /\ tasks[1].file = scoped[1] /\ tasks[2].file = scoped[2]


(***************************************************************************)
(* Passes in flight together.  The command callbacks start a pass without  *)
(* looking whether another one is running; a pass waiting on an await      *)
(* keeps its locals while a later pass runs to its end.                    *)
(***************************************************************************)
\* the positions at which the pass waits for a calendar call to settle
AwaitPoints == {"resolve", "delete", "update", "insert"}

\* the locals of a pass and the position it waits at
Frame ==
    [pc |-> pc, isQuickSync |-> isQuickSync, folderPairs |-> folderPairs,
     scoped |-> scoped, tasks |-> tasks, idx |-> idx, matchingEvent |-> matchingEvent,
     processedCount |-> processedCount, errorLogs |-> errorLogs, calls |-> calls,
     outcome |-> outcome]

\* the awaited call of the running pass stays pending: control is back with
\* the event loop and a command may start another pass
AwaitPending ==
    /\ pc \in AwaitPoints
    /\ suspended = <<>>
    /\ suspended' = <<Frame>>
    /\ pc' = "idle"
    /\ isQuickSync' = FALSE
    /\ folderPairs' = <<>>
    /\ scoped' = <<>>
    /\ tasks' = <<>>
    /\ idx' = 0
    /\ matchingEvent' = NoId
    /\ processedCount' = 0
    /\ errorLogs' = <<>>
    /\ calls' = <<>>
    /\ outcome' = None
    /\ UNCHANGED <<folders, notes, remote, nextId, now, settings, doneOnce, pairsOut,
                   cleanupVars, mapperVars, expiry_date, logFiles, server, listeners,
                   fileContent, yamlData, fileHistory, lastSyncDate, savedSyncDate,
                   encTokenData,
                   oAuth2Client>>

\* the awaited call settles: the waiting pass goes on with the locals it had
AwaitSettled ==
    /\ pc = "idle"
    /\ suspended # <<>>
    /\ LET f == suspended[1]
       IN  /\ pc' = f.pc
           /\ isQuickSync' = f.isQuickSync
           /\ folderPairs' = f.folderPairs
           /\ scoped' = f.scoped
           /\ tasks' = f.tasks
           /\ idx' = f.idx
           /\ matchingEvent' = f.matchingEvent
           /\ processedCount' = f.processedCount
           /\ errorLogs' = f.errorLogs
           /\ calls' = f.calls
           /\ outcome' = f.outcome
    /\ suspended' = <<>>
    /\ UNCHANGED <<folders, notes, remote, nextId, now, settings, doneOnce, pairsOut,
                   cleanupVars, mapperVars, expiry_date, logFiles, server, listeners,
                   fileContent, yamlData, fileHistory, lastSyncDate, savedSyncDate,
                   encTokenData,
                   oAuth2Client>>

NextOverlap ==
    \/ Next
    \/ Tick
    \/ AwaitPending
    \/ AwaitSettled

SpecOverlap == InitClock /\ [][NextOverlap]_vars

(***************************************************************************)
(* C18: the checkpoint lastSyncDate never decreases.  Whenever a step      *)
(* changes the checkpoint, in the settings object or in the data file,     *)
(* and a checkpoint was stored before, the new value is greater than or    *)
(* equal to the old one; the first write stores the time of the write.     *)
(* This holds for quick and full passes, for passes that logged errors,    *)
(* and for a pass that ends while an earlier pass is still waiting.        *)
(***************************************************************************)
NotBefore(old, new) ==
    /\ new # NoDate
    /\ old # NoDate => new[1] >= old[1]

C18_Step ==
    /\ lastSyncDate' # lastSyncDate => NotBefore(lastSyncDate, lastSyncDate')
    /\ savedSyncDate' # savedSyncDate => NotBefore(savedSyncDate, savedSyncDate')

C18_CheckpointMonotone == [][C18_Step]_vars

\* a pass that logged an error has written the checkpoint at the latest time
\* while an earlier pass, waiting past its discovery, has yet to write its own
C18_Witness ==
    /\ suspended # <<>>
    /\ suspended[1].tasks # <<>>
    /\ pc = "done"
    /\ outcome = "errors"
    /\ now = MaxTime
    /\ lastSyncDate = <<now>>
    /\ savedSyncDate = <<now>>


(***************************************************************************)
(* C19: the update branch.  When the branch runs for a task, an event was  *)
(* resolved for it and its status is not the delete trigger; the update    *)
(* call, if the mapping lets it be made, addresses the resolved event's id *)
(* and carries that same id in its body; and the step changes no note and  *)
(* no folder.  A task that went through the update branch has made a get   *)
(* and an update call and nothing else, and its note still holds the       *)
(* status, the googleEventId and the search folder it was extracted with.  *)
(***************************************************************************)
UpdateCallOf(c, n) ==
    /\ c.op = "update"
    /\ c.note = n
    /\ c.id = matchingEvent
    /\ c.body = matchingEvent

C19_Step ==
    pc = "update" =>
        /\ notes' = notes
        /\ folders' = folders
        /\ calls' # calls =>
              /\ Len(calls') = Len(calls) + 1
              /\ SubSeq(calls', 1, Len(calls)) = calls
              /\ UpdateCallOf(calls'[Len(calls')], tasks[idx].file)

NoteAsExtracted(i) ==
    LET n == tasks[i].file
    IN  /\ notes[n].status = tasks[i].data.status
        /\ notes[n].googleEventId = tasks[i].data.googleEventId
        /\ InSearchFolder(FilePath(n), folderPairs)

C19_State ==
    /\ pc = "update" =>
          /\ matchingEvent # NoId
          /\ matchingEvent = tasks[idx].data.googleEventId
          /\ ~DeleteTrigger(tasks[idx].data)
          /\ NoteAsExtracted(idx)
    /\ \A i \in 1..Len(tasks) :
          HasOp(tasks[i].file, "update") =>
              /\ OpsOf(tasks[i].file) = <<"get", "update">>
              /\ CallsOf(tasks[i].file)[2].id = CallsOf(tasks[i].file)[1].id
              /\ CallsOf(tasks[i].file)[2].body = CallsOf(tasks[i].file)[1].id
              /\ NoteAsExtracted(i)

C19_UpdateLeavesNote == []C19_State /\ [][C19_Step]_vars

\* a pass has updated the event of a note last written before the present
\* time: a write of the note during the pass would show in its mtime
C19_Witness ==
    /\ pc = "done"
    /\ \E k \in 1..Len(calls) :
          /\ calls[k].op = "update"
          /\ calls[k].r = "ok"
          /\ calls[k].id = notes[calls[k].note].googleEventId
          /\ notes[calls[k].note].mtime < now


(***************************************************************************)
(* C20: a failed remote delete in the per-task deletion branch.  The step  *)
(* whose delete call fails changes no note and no folder, logs the task's  *)
(* path and moves on to the next task.  A task whose delete call failed    *)
(* made no call after it (no write of the attribute block, no move), its   *)
(* note still holds the googleEventId the call addressed and the status    *)
(* it was extracted with, and once the task has ended its path is in the   *)
(* error log.                                                              *)
(***************************************************************************)
DeleteFails ==
    /\ pc = "delete"
    /\ Len(calls') = Len(calls) + 1
    /\ calls'[Len(calls')].op = "delete"
    /\ calls'[Len(calls')].r = "fail"

C20_Step ==
    DeleteFails =>
        /\ notes' = notes
        /\ folders' = folders
        /\ remote' = remote
        /\ tasks' = tasks
        /\ errorLogs' = Append(errorLogs, FilePath(tasks[idx].file))
        /\ idx' = idx + 1

C20_State ==
    \A i \in 1..Len(tasks) :
        LET n == tasks[i].file
            cs == CallsOf(n)
        IN  HasCall(n, "delete", "fail") =>
                /\ cs[Len(cs)].op = "delete"
                /\ ~HasOp(n, "save")
                /\ ~HasOp(n, "move")
                /\ notes[n].googleEventId # NoId
                /\ notes[n].googleEventId = cs[Len(cs)].id
                /\ notes[n].status = tasks[i].data.status
                /\ Ended(i)
                /\ Logged(n)

C20_FailedDeleteLeavesNote == []C20_State /\ [][C20_Step]_vars

\* the pass ended with errors after the delete of an event that the calendar
\* still holds had failed; the note keeps its reference to that event
C20_Witness ==
    /\ pc = "done"
    /\ outcome = "errors"
    /\ \E k \in 1..Len(calls) :
          /\ calls[k].op = "delete"
          /\ calls[k].r = "fail"
          /\ calls[k].id \in remote
          /\ notes[calls[k].note].googleEventId = calls[k].id
          /\ DeleteTrigger(notes[calls[k].note])
          /\ Logged(calls[k].note)


(***************************************************************************)
(* Bulk cleanup while the calendar changes: an event of the listing is     *)
(* deleted out-of-band before the loop reaches it.                         *)
(***************************************************************************)
\* an event is deleted in the calendar while the cleanup loop runs
RemoteDeleteInFlight(e) ==
    /\ pc = "cleanup"
    /\ e \in remote
    /\ remote' = remote \ {e}
    /\ UNCHANGED <<folders, notes, nextId, now, settings, doneOnce, pairsOut, sideVars,
                   lastSyncDate, savedSyncDate, encTokenData, oAuth2Client, pc,
                   passVars>>

NextCleanupRace ==
    \/ NextCleanup
    \/ \E e \in 1..UserEvent : RemoteDeleteInFlight(e)

SpecCleanupRace == InitCleanup /\ [][NextCleanupRace]_vars

(***************************************************************************)
(* C21: in the bulk cleanup a remote delete that finds the event already   *)
(* gone counts as a successful delete: once the loop has handled a listed  *)
(* event that the calendar no longer held, no note refers to that event.   *)
(***************************************************************************)
AlreadyGone == pc = "cleanup" /\ eventsToDelete[eventIdx] \notin remote

Refers(ns, e) == \E n \in NoteNames : ns[n].googleEventId = e

C21_Step ==
    (AlreadyGone /\ eventIdx' = eventIdx + 1) => ~Refers(notes', eventsToDelete[eventIdx])

C21_GoneTreatedAsDeleted == [][C21_Step]_vars


(***************************************************************************)
(* C22: a failed relocation in the deletion branch.  The step whose move   *)
(* fails changes no note, logs the task's path and goes on with the next   *)
(* task.  The note of a task whose move failed is still within the scope   *)
(* of the pass, carries no googleEventId and still has the delete status;  *)
(* the move was the task's last call.  Such a note, when a pass            *)
(* processes it, goes from the resolve step straight to the write and the  *)
(* move without a call, and a task in the deletion branch that made no     *)
(* get call makes no calendar call at all.                                 *)
(***************************************************************************)
MoveFails ==
    /\ pc = "move"
    /\ Len(calls') = Len(calls) + 1
    /\ calls'[Len(calls')].op = "move"
    /\ calls'[Len(calls')].r = "fail"

\* the condition a failed move leaves a note in
LeftBehind(n) ==
    /\ notes[n].googleEventId = NoId
    /\ DeleteTrigger(notes[n])
    /\ InSearchFolder(FilePath(n), PairsOfSettings)

C22_Step ==
    /\ MoveFails =>
          /\ notes' = notes
          /\ remote' = remote
          /\ errorLogs' = Append(errorLogs, FilePath(tasks[idx].file))
          /\ idx' = idx + 1
          /\ pc' = IF idx < Len(tasks) THEN "resolve" ELSE "finish"
    /\ (pc = "resolve" /\ idx \in 1..Len(tasks) /\ LeftBehind(tasks[idx].file)) =>
          /\ calls' = calls
          /\ pc' = "save2"

C22_State ==
    \A i \in 1..Len(tasks) :
        LET n == tasks[i].file
            cs == CallsOf(n)
        IN  /\ HasCall(n, "move", "fail") =>
                  /\ cs[Len(cs)].op = "move"
                  /\ LeftBehind(n)
                  /\ InSearchFolder(FilePath(n), folderPairs)
                  /\ Ended(i)
                  /\ Logged(n)
            /\ (DeleteTrigger(tasks[i].data) /\ ~HasOp(n, "get")) =>
                  /\ \A k \in 1..Len(cs) : cs[k].op \notin CalendarOps
                  /\ StartsWith(<<"save", "move">>, OpsOf(n))

C22_MoveFailureIsolated == []C22_State /\ [][C22_Step]_vars

\* the first task's event was deleted and its back-reference cleared, its
\* relocation failed, and the second task was created all the same
C22_Witness ==
    /\ pc = "done"
    /\ Len(tasks) = 2
    /\ OpsOf(tasks[1].file) = DeletionSequence
    /\ HasCall(tasks[1].file, "delete", "ok")
    /\ HasCall(tasks[1].file, "move", "fail")
    /\ errorLogs = <<FilePath(tasks[1].file)>>
    /\ notes[tasks[1].file].googleEventId = NoId
    /\ OpsOf(tasks[2].file) = <<"insert", "save">>
    /\ ~FailedCall(tasks[2].file)


(***************************************************************************)
(* The pass machine on a vault whose date attributes the user edits: one   *)
(* task note, whose start or end value the user replaces between passes.   *)
(***************************************************************************)
\* the user replaces the start or end value of a task note: a value that
\* parses by one that does not, or the other way round
UserEditDate(n) ==
    /\ pc = "idle"
    /\ notes[n].tags
    /\ notes' = [notes EXCEPT ![n].dateOk = ~notes[n].dateOk, ![n].mtime = now]
    /\ doneOnce' = doneOnce \ {n}
    /\ UNCHANGED <<folders, remote, nextId, now, settings, pairsOut, sideVars,
                   lastSyncDate, savedSyncDate, encTokenData, oAuth2Client, pc,
                   passVars>>

NextDates ==
    \/ Next
    \/ \E n \in NoteNames : UserEditDate(n)

SpecDates == InitClock /\ [][NextDates]_vars

(***************************************************************************)
(* C23: a task whose start or end value is present but does not parse.     *)
(* As stated: once the task has ended, no insert and no update was called  *)
(* for it, its note was neither written nor moved, and its path is in the  *)
(* error log.                                                              *)
(***************************************************************************)
Unparsable(i) == ~tasks[i].data.dateOk

NoMappingEffects(i) ==
    LET n == tasks[i].file
    IN  /\ ~HasOp(n, "insert")
        /\ ~HasOp(n, "update")
        /\ ~HasOp(n, "save")
        /\ ~HasOp(n, "move")
        /\ notes[n].status = tasks[i].data.status
        /\ notes[n].googleEventId = tasks[i].data.googleEventId

C23_State ==
    \A i \in 1..Len(tasks) :
        (Unparsable(i) /\ ~DeleteTrigger(tasks[i].data)) =>
            /\ NoMappingEffects(i)
            /\ StartsWith(<<"get">>, OpsOf(tasks[i].file))
            /\ Ended(i) => Logged(tasks[i].file)

C23_Step ==
    (pc \in {"insert", "update"} /\ Unparsable(idx)) =>
        /\ notes' = notes
        /\ remote' = remote
        /\ calls' = calls
        /\ errorLogs' = Append(errorLogs, FilePath(tasks[idx].file))
        /\ idx' = idx + 1

TOx == <<"T", Slash, "O", "x">>
TOxO == <<"T", Slash, "O", "x", Slash, "O">>
TOxD == <<"T", Slash, "O", "x", Slash, "D">>

SiblingLayout == [fs |-> <<T, TO, TD, TOx, TOxO, TOxD>>, search |-> <<"O">>, done |-> <<"D">>]

InitLayouts ==
    /\ FreshWorld
    /\ \E l \in {NestedLayout, SiblingLayout} :
          /\ folders = l.fs
          /\ settings = Settings(l, <<"s">>, T)
          /\ notes = [Vault(l.fs[Len(l.fs) - 1], TO, TRUE) EXCEPT !["b"].tags = FALSE]
    /\ oAuth2Client = Authorised
    /\ encTokenData = 1

SpecLayouts == InitLayouts /\ [][Next]_vars

(***************************************************************************)
(* C24: a completed task's note is relocated into the done folder that is  *)
(* the sibling of the search folder containing the note.  Whenever the     *)
(* move step changes the folder of a note, the new folder is the done      *)
(* path of the pair whose search folder is the note's folder or the        *)
(* nearest ancestor of it among the search folders.                        *)
(***************************************************************************)
\* folder f is the folder g or lies below it
Within(f, g) == f = g \/ StartsWith(f, g \o <<Slash>>)

\* the pairs whose search folder contains folder f, and the nearest of them
ContainingPairs(f) == {k \in 1..Len(folderPairs) : Within(f, folderPairs[k].searchPath)}

HomePair(f) ==
    CHOOSE k \in ContainingPairs(f) :
        \A j \in ContainingPairs(f) :
            Len(folderPairs[j].searchPath) <= Len(folderPairs[k].searchPath)

C24_Step ==
    (pc = "move" /\ notes' # notes) =>
        LET n == tasks[idx].file
        IN  /\ ContainingPairs(notes[n].folder) # {}
            /\ notes'[n].folder = folderPairs[HomePair(notes[n].folder)].donePath

C24_MovedToSiblingDone == [][C24_Step]_vars


(***************************************************************************)
(* C25: every task a pass processes is a note inside the search folder of  *)
(* some valid folder pair.  When the discovery step hands tasks to the     *)
(* loop, the folder of each task's note is the search folder of one of     *)
(* the pairs or lies below it; a note in a done folder, or in a folder     *)
(* whose path only begins with the characters of a search path, is not     *)
(* among them.                                                             *)
(***************************************************************************)
InsideSearchFolder(f, pairs) ==
    \E k \in 1..Len(pairs) : Within(f, pairs[k].searchPath)

C25_Step ==
    (pc = "discover" /\ pc' = "resolve") =>
        \A i \in 1..Len(tasks') :
            InsideSearchFolder(notes[tasks'[i].file].folder, folderPairs')

C25_OnlyNotesInSearchFolders == [][C25_Step]_vars


(***************************************************************************)
(* C26: a pass in which tasks failed has still set the checkpoint to the   *)
(* time of its end, and a task that failed in it is not among the          *)
(* candidates a quick pass computes from the vault as that pass left it:   *)
(* neither the creation nor the modification time of its note is after     *)
(* the checkpoint.  The note is still a candidate of a full pass.          *)
(***************************************************************************)
\* what the discovery step of a pass started next would hand to the loop
CandidatesOfNext(quick) ==
    TasksToProcess(FilteredTasks(fetchObsidianTasks, PairsOfSettings), quick, lastSyncDate)

FailedTasks == {tasks[i].file : i \in {j \in 1..Len(tasks) : Logged(tasks[j].file)}}

C26_FailedTasksHidden ==
    (pc = "done" /\ tasks # <<>>) =>
        /\ lastSyncDate = <<now>>
        /\ savedSyncDate = <<now>>
        /\ \A n \in FailedTasks :
              /\ notes[n].ctime <= lastSyncDate[1]
              /\ notes[n].mtime <= lastSyncDate[1]
              /\ ~\E k \in 1..Len(CandidatesOfNext(TRUE)) : CandidatesOfNext(TRUE)[k] = n
              /\ \E k \in 1..Len(CandidatesOfNext(FALSE)) : CandidatesOfNext(FALSE)[k] = n

\* the pass wrote the note at the very time of the checkpoint and then failed
\* on the move: the note is not after the checkpoint
C26_Witness ==
    /\ pc = "done"
    /\ outcome = "errors"
    /\ now > 0
    /\ \E n \in FailedTasks :
          /\ HasCall(n, "move", "fail")
          /\ notes[n].mtime = now
          /\ lastSyncDate = <<now>>


(***************************************************************************)
(* C27: every failed pass-level precondition ends the pass as a reported   *)
(* stop, a notice followed by a normal return: a pass that stopped on a    *)
(* precondition has not thrown.                                            *)
(***************************************************************************)
\* the stops that are `new Notice(...); return;` in the code
NoticeStops == {"noClient", "noToken", "noPairs", "noTasks", "noneAfterFilter"}

C27_StopsAreReported ==
    (pc = "done" /\ outcome \in PreconditionStops) => outcome \in NoticeStops


(***************************************************************************)
(* C28: the credential refresh step makes the refresh-token exchange only  *)
(* when needed.  If the credential has an expiry more than the buffer      *)
(* ahead of the current time, the step makes no exchange and leaves the    *)
(* stored encrypted credential as it is; otherwise, holding a refresh      *)
(* token, it attempts the exchange, and a successful exchange rewrites     *)
(* the stored credential.                                                  *)
(***************************************************************************)
\* the five minutes of the buffer, in ticks
RefreshBuffer == 1

StillFresh == expiry_date # NoExpiry /\ expiry_date > now + RefreshBuffer

TokenCallMade ==
    /\ Len(calls') = Len(calls) + 1
    /\ calls'[Len(calls')].op = "token"

C28_Step ==
    pc = "refresh" =>
        IF StillFresh
        THEN calls' = calls /\ encTokenData' = encTokenData
        ELSE oAuth2Client.refresh_token =>
                /\ TokenCallMade
                /\ calls'[Len(calls')].r = "ok" => encTokenData' # encTokenData

C28_RefreshOnlyWhenNeeded == [][C28_Step]_vars


(***************************************************************************)
(* C29: a failure of the credential refresh does not abort the pass.  The  *)
(* refresh step always hands over to folder discovery, whether it made no  *)
(* exchange (no refresh token), a failed one or a successful one; unless   *)
(* the exchange succeeded, the stored encrypted credential, the client     *)
(* and its expiry are as before.  A pass whose exchange failed never ends  *)
(* as thrown: it ends on one of the folder or candidate stops or goes      *)
(* through the loop, where failures are logged per task.                   *)
(***************************************************************************)
ExchangeSucceeded == TokenCallMade /\ calls'[Len(calls')].r = "ok"

C29_Step ==
    pc = "refresh" =>
        /\ pc' = "discover"
        /\ outcome' = outcome
        /\ oAuth2Client' = oAuth2Client
        /\ ~ExchangeSucceeded =>
              /\ encTokenData' = encTokenData
              /\ expiry_date' = expiry_date

RefreshFailed ==
    \E k \in 1..Len(calls) : calls[k].op = "token" /\ calls[k].r = "fail"

C29_State ==
    (RefreshFailed /\ pc \notin {"idle", "cleanup", "cleaned"}) =>
        /\ outcome \in {None, "noPairs", "noTasks", "noneAfterFilter", "success", "errors"}
        /\ pc = "done" /\ tasks # <<>> =>
              /\ idx = Len(tasks) + 1
              /\ outcome = (IF errorLogs = <<>> THEN "success" ELSE "errors")

C29_RefreshFailureTolerated == []C29_State /\ [][C29_Step]_vars

\* the exchange failed, the stored credential is the one the plugin started
\* with, and the pass went through its two tasks: one created, one logged
C29_Witness ==
    /\ pc = "done"
    /\ calls # <<>>
    /\ calls[1].op = "token"
    /\ calls[1].r = "fail"
    /\ encTokenData = 1
    /\ expiry_date = NoExpiry
    /\ Len(tasks) = 2
    /\ Len(errorLogs) = 1
    /\ \E k \in 1..Len(calls) : calls[k].op = "insert" /\ calls[k].r = "ok"


(***************************************************************************)
(* C30: fetchObsidianTasks(tag) applies no folder filtering: what it       *)
(* returns is every note of the vault whose attribute block carries the    *)
(* tag, in vault order, whatever folder the note is in.                    *)
(***************************************************************************)
TaggedNotes == SelectSeq(NoteOrder, LAMBDA n : notes[n].tags)

\* the discovery step that hands tasks to the loop has called the fetcher on
\* the vault of the state it starts in
C30_Step ==
    (pc = "discover" /\ pc' = "resolve") => fetchObsidianTasks = TaggedNotes

C30_FetchAppliesNoFolderFilter == [][C30_Step]_vars

(***************************************************************************)
(* The end of a pass: the summary and the error log.                       *)
(***************************************************************************)
\* the pass reaches its summary (lines 165-177)
Summarised == pc = "finish" /\ pc' = "done"

\* C31: a pass that ends with at least one per-task error ends with the
\* summary "completed with errors" and writes its error entries to a log
\* file; a pass that ends without an error ends with the clean summary and
\* writes no log file.
C31_Step ==
    Summarised =>
        IF errorLogs # <<>>
        THEN outcome' = "errors" /\ logFiles' = Append(logFiles, errorLogs)
        ELSE outcome' = "success" /\ logFiles' = logFiles

C31_ErrorLogPersisted == [][C31_Step]_vars

(***************************************************************************)
(* Authorization (oauth.ts): the callback listeners.  A listener is one    *)
(* http.Server; the module variable server refers to the one created last. *)
(***************************************************************************)
MaxListeners == 3

\* the request targets a callback can carry
CodeUrl == <<"/", "?", "c", "o", "d", "e", "=", "k">>
EmptyCodeUrl == <<"/", "?", "c", "o", "d", "e", "=">>
ErrorUrl == <<"/", "?", "e", "r", "r", "o", "r", "=", "k">>
IconUrl == <<"/", "f">>
CallbackUrls == {CodeUrl, EmptyCodeUrl, ErrorUrl, IconUrl}

\* new URL(req.url, ...).searchParams.get("code") of a url that passed line 144
CodeOf(url) == SubSeq(url, Len(EmptyCodeUrl) + 1, Len(url))

\* the listeners that accept connections
Listening == {l \in 1..Len(listeners) : listeners[l]}

\* server.close() on the listener the module variable refers to
ServerClosed == IF server = 0 THEN listeners ELSE [listeners EXCEPT ![server] = FALSE]

yamlVars == <<fileContent, yamlData, fileHistory>>

authVars == <<folders, notes, remote, nextId, now, settings, doneOnce, pairsOut,
              cleanupVars, mapperVars, suspended, logFiles, lastSyncDate,
              savedSyncDate, pc, passVars>>

\* authenticateWithGoogle with initializeOAuthClient and startOAuthServer:
\* a client without credentials, then a new listener on an ephemeral port
authenticateWithGoogle(given) ==
    /\ pc = "idle"
    /\ Len(listeners) < MaxListeners
    /\ IF given
       THEN /\ oAuth2Client' = Authorised
            /\ expiry_date' = NoExpiry
            /\ listeners' = Append(listeners, TRUE)
            /\ server' = Len(listeners) + 1
       ELSE /\ oAuth2Client' = NoClient
            /\ expiry_date' = NoExpiry
            /\ UNCHANGED <<listeners, server>>
    /\ UNCHANGED <<authVars, yamlVars, encTokenData>>

\* handleOAuthCallback on a request received by listener l, with
\* exchangeCodeForTokens when the request carries a code
handleOAuthCallback(l, url) ==
    /\ pc = "idle"
    /\ l \in Listening
    /\ IF StartsWith(url, EmptyCodeUrl)
       THEN /\ listeners' = ServerClosed
            /\ \E ok \in BOOLEAN, refreshable \in BOOLEAN :
                  IF CodeOf(url) # <<>> /\ oAuth2Client.set /\ ok
                  THEN /\ oAuth2Client' = [set |-> TRUE, refresh_token |-> refreshable]
                       /\ encTokenData' = 3 - (IF encTokenData = 0 THEN 2 ELSE encTokenData)
                       /\ expiry_date' = now + TokenLifetime
                  ELSE UNCHANGED <<oAuth2Client, encTokenData, expiry_date>>
       ELSE UNCHANGED <<listeners, oAuth2Client, encTokenData, expiry_date>>
    /\ UNCHANGED <<authVars, yamlVars, server>>

\* closeOAuthServer (exported)
closeOAuthServer ==
    /\ pc = "idle"
    /\ server # 0
    /\ listeners' = ServerClosed
    /\ server' = 0
    /\ UNCHANGED <<authVars, yamlVars, oAuth2Client, encTokenData, expiry_date>>

InitAuth ==
    /\ FreshWorld
    /\ folders = DefaultLayout.fs
    /\ settings = Settings(DefaultLayout, <<"s">>, T)
    /\ notes = Vault(TO, TO, TRUE)
    /\ oAuth2Client = NoClient
    /\ encTokenData \in {0, 1}

NextAuth ==
    \/ \E given \in BOOLEAN : authenticateWithGoogle(given)
    \/ \E l \in 1..MaxListeners, url \in CallbackUrls : handleOAuthCallback(l, url)
    \/ closeOAuthServer
    \/ Tick

SpecAuth == InitAuth /\ [][NextAuth]_vars

\* C32: at most one authorization callback listener is open at any time:
\* a new authorization attempt closes the listener of the previous one, and
\* handling a callback closes the listener that received it, so no listener
\* of an earlier attempt stays open.
C32_State == Cardinality(Listening) <= 1

C32_Step ==
    /\ Len(listeners') > Len(listeners) => Listening' = {Len(listeners')}
    /\ (listeners' # listeners /\ Len(listeners') = Len(listeners) /\ server' = server)
          => Listening' = {}

C32_OneListener == []C32_State /\ [][C32_Step]_vars

(***************************************************************************)
(* Remote events and the notes that refer to them.                         *)
(***************************************************************************)
\* the pass is between two tasks, or no pass is in flight
AtTaskBoundary == pc \in {"idle", "resolve", "finish", "done"}

\* the notes whose googleEventId is e
Referrers(e) == {n \in NoteNames : notes[n].googleEventId = e}

\* C33: at every per-task boundary each remote event that the engine
\* inserted and did not delete is the googleEventId of exactly one note,
\* also after a failed note write, so that no later pass inserts a second
\* event for the same task.
C33_EveryEventReferenced ==
    AtTaskBoundary => \A e \in remote : Cardinality(Referrers(e)) = 1

(***************************************************************************)
(* Overlapping passes and the events of one note.                          *)
(***************************************************************************)
\* the step is a successful insert for note n
InsertMadeFor(n) ==
    /\ Len(calls') = Len(calls) + 1
    /\ calls'[Len(calls')].op = "insert"
    /\ calls'[Len(calls')].r = "ok"
    /\ calls'[Len(calls')].note = n

\* C34: when a pass is started while an earlier one is still in flight, a
\* task without a back-reference gets at most one remote event: an event is
\* inserted for a note only while the note refers to no existing event, so
\* two passes never both insert for the same note and no inserted event
\* loses its note.
C34_Step ==
    \A n \in NoteNames : InsertMadeFor(n) => notes[n].googleEventId \notin remote

C34_OverlapInsertsOnce == [][C34_Step]_vars

(***************************************************************************)
(* The user and the clock while a pass is in flight: the pass yields at    *)
(* every await, and the vault accepts edits in between.                    *)
(***************************************************************************)
\* the positions of the per-task loop and the end of the pass
InFlight == {"resolve", "delete", "save1", "save2", "move", "update", "insert",
             "saveback", "finish"}

TickInFlight ==
    /\ pc \in InFlight
    /\ now < MaxTime
    /\ now' = now + 1
    /\ UNCHANGED <<folders, notes, remote, nextId, settings, doneOnce, pairsOut, sideVars,
                   lastSyncDate, savedSyncDate, encTokenData, oAuth2Client, pc,
                   passVars>>

\* the user edits the status attribute of a task note during a pass
UserEditInFlight(n, s) ==
    /\ pc \in InFlight
    /\ notes[n].tags
    /\ notes[n].status # s
    /\ notes' = [notes EXCEPT ![n].status = s, ![n].mtime = now]
    /\ doneOnce' = doneOnce \ {n}
    /\ UNCHANGED <<folders, remote, nextId, now, settings, pairsOut, sideVars,
                   lastSyncDate, savedSyncDate, encTokenData, oAuth2Client, pc,
                   passVars>>

NextEdits ==
    \/ NextClock
    \/ TickInFlight
    \/ \E n \in NoteNames, s \in NoteStatuses : UserEditInFlight(n, s)

SpecEdits == InitClock /\ [][NextEdits]_vars

\* the tasks of the pass whose note no longer has the status the pass extracted:
\* the user changed it after the extraction and no write of the pass undid it
EditedSinceExtraction ==
    {n \in NoteNames : \E i \in 1..Len(tasks) :
        tasks[i].file = n /\ notes[n].status # tasks[i].data.status}

\* C35: an edit of a task note is never lost to the incremental sync: a note
\* in a search folder that the user modified, also while a pass was in
\* flight and after that pass had processed the note, is a candidate of the
\* next quick pass.
C35_EditsReachNextQuickPass ==
    (pc = "done" /\ outcome \in {"success", "errors"}) =>
        \A n \in EditedSinceExtraction :
            InSearchFolder(FilePath(n), folderPairs) =>
                \E k \in 1..Len(CandidatesOfNext(TRUE)) : CandidatesOfNext(TRUE)[k] = n

(***************************************************************************)
(* The writes of the pass and the checkpoint it stores.                    *)
(***************************************************************************)
\* the notes whose attribute block the pass rewrote
WrittenByPass == {n \in NoteNames : HasCall(n, "save", "ok")}

\* no note was created or modified after the stored checkpoint
NothingNewer ==
    /\ lastSyncDate # NoDate
    /\ \A n \in NoteNames :
          notes[n].ctime <= lastSyncDate[1] /\ notes[n].mtime <= lastSyncDate[1]

\* C36: the note writes of the engine do not trigger the incremental sync
\* again: every note a pass wrote has a modification time not greater than
\* the checkpoint the pass stored, so the next quick pass has no candidate,
\* and a quick pass that finds nothing newer than the checkpoint stops
\* without a calendar call.
C36_State ==
    (pc = "done" /\ outcome \in {"success", "errors"}) =>
        /\ \A n \in WrittenByPass : notes[n].mtime <= lastSyncDate[1]
        /\ CandidatesOfNext(TRUE) = <<>>

C36_Step ==
    (pc = "discover" /\ isQuickSync /\ NothingNewer) =>
        /\ pc' = "done"
        /\ outcome' \in {"noPairs", "noTasks", "noneAfterFilter"}
        /\ \A k \in 1..Len(calls') : calls'[k].op \notin CalendarOps

C36_OwnWritesNotResynced == []C36_State /\ [][C36_Step]_vars

\* a quick pass found nothing to do although a note carries the id and the
\* modification time a previous pass gave it, the write lying before the
\* checkpoint
C36_Witness ==
    /\ pc = "done"
    /\ isQuickSync
    /\ outcome = "noneAfterFilter"
    /\ \E n \in NoteNames :
          /\ notes[n].googleEventId \in remote
          /\ notes[n].mtime > 0
          /\ notes[n].mtime < lastSyncDate[1]

(***************************************************************************)
(* The body of an insert.                                                  *)
(***************************************************************************)
\* C37: the event body handed to insert never carries an id; when the event
\* of a task was not found, the stale back-reference of the task is not
\* sent as the id of the new event and the provider assigns a fresh one.
C37_InsertBodyWithoutId ==
    \A k \in 1..Len(calls) : calls[k].op = "insert" => calls[k].body = NoId

(***************************************************************************)
(* saveTaskDataToYaml on raw text: the attribute block of a note is        *)
(* rewritten from the task data and the rest of the note is kept.          *)
(***************************************************************************)
NL == "\n"
Delimiter == <<"-", "-", "-">>

\* String.prototype.trim over the whitespace characters of the notes
RECURSIVE TrimStart(_)
TrimStart(s) == IF s # <<>> /\ Head(s) \in {" ", NL} THEN TrimStart(Tail(s)) ELSE s

RECURSIVE TrimEnd(_)
TrimEnd(s) ==
    IF s # <<>> /\ s[Len(s)] \in {" ", NL} THEN TrimEnd(SubSeq(s, 1, Len(s) - 1)) ELSE s

\* Array.prototype.join
RECURSIVE JoinLines(_, _)
JoinLines(lines, sep) ==
    IF lines = <<>> THEN <<>>
    ELSE IF Len(lines) = 1 THEN lines[1]
    ELSE lines[1] \o sep \o JoinLines(Tail(lines), sep)

\* String.prototype.indexOf(sub, from) as a position counted from 1; 0 for -1
IndexOf(s, sub, from) ==
    LET S == {p \in (from + 1)..Len(s) :
                 p + Len(sub) - 1 <= Len(s) /\ SubSeq(s, p, p + Len(sub) - 1) = sub}
    IN  IF S = {} THEN 0 ELSE CHOOSE p \in S : \A q \in S : p <= q

\* `---\n${entries.map(([key, value]) => `${key}: ${value}`).join('\n')}\n---\n`
yamlContent(data) ==
    Delimiter \o <<NL>>
        \o JoinLines([k \in 1..Len(data) |-> data[k][1] \o <<":", " ">> \o data[k][2]], <<NL>>)
        \o <<NL>> \o Delimiter \o <<NL>>

\* the content saveTaskDataToYaml hands to vault.modify
saveTaskDataToYaml(content, data) ==
    LET p == IndexOf(content, Delimiter, 3)
        rest == IF p = 0 THEN SubSeq(content, 3, Len(content))
                ELSE SubSeq(content, p + 3, Len(content))
    IN  yamlContent(data) \o <<NL>> \o TrimEnd(TrimStart(rest))

MaxWrites == 2

\* the lines between the delimiters of the notes the rewrite starts from
PlainBlock == <<<<"a", ":", " ", "1">>>>
TwoLineBlock == <<<<"a", ":", " ", "1">>, <<"b", ":", " ", "2">>>>
CommentBlock == <<<<"a", ":", " ", "1">>, <<"#", " ", "-", "-", "-">>>>
BlockTexts == {PlainBlock, TwoLineBlock, CommentBlock}

\* what follows the closing delimiter
NoBody == <<>>
WordBody == <<"\n", "x">>
PaddedBody == <<"\n", "\n", "x", " ", "y", " ", "\n">>
RuleBody == <<"\n", "x", "\n", "-", "-", "-", "\n", "y">>
BodyTexts == {NoBody, WordBody, PaddedBody, RuleBody}

\* task data: the cached attribute block, with or without a back-reference
DataA == <<<<<<"a">>, <<"1">>>>>>
DataAB == <<<<<<"a">>, <<"1">>>>, <<<<"b">>, <<"2">>>>>>
DataBA == <<<<<<"b">>, <<"2">>>>, <<<<"a">>, <<"1">>>>>>
DataWithId == <<<<<<"a">>, <<"1">>>>, <<<<"g">>, <<"7">>>>>>
DataChanged == <<<<<<"a">>, <<"2">>>>>>
DataSets == {DataA, DataAB, DataBA, DataWithId, DataChanged}

\* a note: the opening delimiter, the block, the closing delimiter, the rest
NoteText(block, body) ==
    Delimiter \o <<NL>> \o JoinLines(block, <<NL>>) \o <<NL>> \o Delimiter \o body

InitYaml ==
    /\ FreshWorld
    /\ folders = DefaultLayout.fs
    /\ settings = Settings(DefaultLayout, <<"s">>, T)
    /\ notes = Vault(TO, TO, TRUE)
    /\ oAuth2Client = Authorised
    /\ encTokenData = 1
    /\ pc = "idle"

\* the note and the data of one task are picked
PickNote(block, body, data) ==
    /\ fileContent = <<>>
    /\ fileContent' = NoteText(block, body)
    /\ yamlData' = data
    /\ fileHistory' = <<>>
    /\ UNCHANGED <<authVars, server, listeners, oAuth2Client, encTokenData, expiry_date>>

\* one call of saveTaskDataToYaml on the note
SaveTaskData ==
    /\ fileContent # <<>>
    /\ Len(fileHistory) < MaxWrites
    /\ fileContent' = saveTaskDataToYaml(fileContent, yamlData)
    /\ fileHistory' = Append(fileHistory, fileContent)
    /\ UNCHANGED <<authVars, yamlData, server, listeners, oAuth2Client, encTokenData,
                   expiry_date>>

NextYaml ==
    \/ \E block \in BlockTexts, body \in BodyTexts, data \in DataSets :
          PickNote(block, body, data)
    \/ SaveTaskData

SpecYaml == InitYaml /\ [][NextYaml]_vars

\* the position of the second line that is exactly the delimiter (0: none)
ClosingLine(s) ==
    LET S == {p \in 4..Len(s) :
                 /\ p + 2 <= Len(s)
                 /\ SubSeq(s, p, p + 2) = Delimiter
                 /\ s[p - 1] = NL
                 /\ (p + 3 <= Len(s) => s[p + 3] = NL)}
    IN  IF S = {} THEN 0 ELSE CHOOSE p \in S : \A q \in S : p <= q

\* the body of a note: what follows its closing delimiter line
BodyOf(s) == SubSeq(s, ClosingLine(s) + 3, Len(s))

\* C38: rewriting the attribute block of a note keeps the body and is
\* idempotent: for a note with a delimited block and data whose keys and
\* values hold neither the delimiter nor a newline, the note written is the
\* delimited block with one `key: value` line per key of the data followed
\* by the original body, trimmed, and a second write of the same data
\* leaves the note as the first write left it.
C38_RewriteKeepsBody ==
    fileHistory # <<>> =>
        /\ ClosingLine(fileHistory[1]) # 0
        /\ fileContent = yamlContent(yamlData) \o <<NL>>
                            \o TrimEnd(TrimStart(BodyOf(fileHistory[1])))
        /\ \A k \in 2..Len(fileHistory) : fileHistory[k] = fileContent

(***************************************************************************)
(* Passes that stop on a precondition.                                     *)
(***************************************************************************)
\* a step of the pass before its per-task loop: lines 26-100
BeforeLoop ==
    /\ pc \in {"idle", "refresh", "discover"}
    /\ pc' \in {"refresh", "discover", "resolve", "done"}
    /\ pc' # pc

\* C39: a pass that stops on a pass-level precondition changes nothing the
\* engine owns: lastSyncDate keeps its value, no note is modified or moved
\* and no calendar event is created, updated or deleted.
C39_Step ==
    BeforeLoop =>
        /\ lastSyncDate' = lastSyncDate
        /\ savedSyncDate' = savedSyncDate
        /\ notes' = notes
        /\ remote' = remote
        /\ nextId' = nextId

C39_State ==
    (pc = "done" /\ outcome \in PreconditionStops) =>
        \A k \in 1..Len(calls) : calls[k].op = "token"

C39_StopChangesNothing == []C39_State /\ [][C39_Step]_vars

\* a quick pass stopped at the filter while a checkpoint was stored and an
\* event of an earlier pass exists
C39_Witness ==
    /\ pc = "done"
    /\ outcome = "noneAfterFilter"
    /\ lastSyncDate # NoDate
    /\ remote # {}
    /\ \E n \in NoteNames : notes[n].googleEventId \in remote

(***************************************************************************)
(* The call of the resolver as the call sites write it: five arguments     *)
(* against the four parameters of the declaration, bound by position.      *)
(***************************************************************************)
\* calendarSync.ts:56-62 and dataFetchers.ts:17: the arguments, in order
CallArguments ==
    <<"plugin", "vault", settings.taskFolderPath, settings.searchFolderName,
      settings.doneFolderName>>

\* part_001:125-130: the parameters, in order
Parameters == <<"vault", "rootFolderPath", "searchFolderName", "doneFolderName">>

\* the argument a parameter receives
Bound(name) ==
    CallArguments[CHOOSE k \in 1..Len(Parameters) : Parameters[k] = name]

\* the call: vault.getAbstractFileByPath (line 158) exists on the vault only
findMatchingFolderPairsAsCalled ==
    IF Bound("vault") # "vault"
    THEN [threw |-> TRUE, pairs |-> <<>>]
    ELSE [threw |-> FALSE,
          pairs |-> findMatchingFolderPairs(folders, Bound("rootFolderPath"),
                                            Bound("searchFolderName"),
                                            Bound("doneFolderName"))]

ResolveAsCalled ==
    /\ pc = "pairs"
    /\ pairsOut' = findMatchingFolderPairsAsCalled
    /\ pc' = "resolved"
    /\ UNCHANGED <<folders, notes, remote, nextId, now, settings, lastSyncDate,
                   savedSyncDate, encTokenData, oAuth2Client, passVars, doneOnce,
                   sideVars>>

NextBinding == ResolveAsCalled

SpecBinding == InitPairs /\ [][NextBinding]_vars

\* C40: the folder pairs the pass and the extraction use are those of
\* findFolderPairs(root = taskFolderPath, searchLabel = searchFolderName,
\* doneLabel = doneFolderName): the arguments of the call sites bind to the
\* parameters of the resolver in that way, and a vault whose root holds a
\* valid pair gets past the folder-pair precondition.
C40_ArgumentsBindAsNamed ==
    pc = "resolved" =>
        /\ ~pairsOut.threw
        /\ pairsOut.pairs = PairsOfSettings

====
